---- MODULE Spec2Model ----
(***************************************************************************)
(* Drawpile project store (dpengine/project.c): the session and message    *)
(* recording layer on top of an SQLite file, as a state machine.           *)
(*                                                                         *)
(* The database file is the record db; the handle DP_Project is the        *)
(* variables prj, session_id, sequence_id and bindings.  SQLite is the     *)
(* environment: each call into it that can fail takes its result from an   *)
(* input of the action (bind_fail, step_result, fault), restricted to the  *)
(* results SQLite documents for that call.                                 *)
(***************************************************************************)
EXTENDS Integers, FiniteSets, Sequences, TLC

\* ------------------------------------------------------------------ bounds
\* Rows of the sessions table a store may hold.
MaxSessions == 2
\* Sequence ids consumed in one store (over all its sessions).
MaxAttempts == 2
\* The connections a client makes, the batches a connection delivers and
\* the messages of a batch that is sent.
MaxConnections == 2
MaxBatches == 2
MaxMessages == 2
\* The largest int.
INT_MAX == 2147483647

\* ------------------------------------------------------- program constants
DP_PROJECT_APPLICATION_ID == 520585024
DP_PROJECT_USER_VERSION == 1
DP_PROJECT_OPEN_EXISTING == 1
DP_PROJECT_OPEN_TRUNCATE == 2

DP_PROJECT_SOURCE_BLANK == 0
DP_PROJECT_SOURCE_FILE_OPEN == 1
DP_PROJECT_SOURCE_SESSION_JOIN == 2

\* The cached statements of a handle (enum DP_ProjectStatement).
DP_ProjectStatement == {"MESSAGE_INSERT", "SESSION_OPEN", "SESSION_CLOSE"}

\* The value of a column or pointer that is not set.
NULL == "NULL"

\* ------------------------------------------------------------ input sets
\* (source_type, source_param, protocol) of a session-open call.
SourceTypes == {DP_PROJECT_SOURCE_BLANK, DP_PROJECT_SOURCE_SESSION_JOIN}

SourceParams == {NULL}

Protocols == {"dp:4.24.0"}

\* A message, as far as the store looks at it: its type, its context id and
\* the length DP_message_serialize_body gives for its body.
Messages == [type : {64}, context_id : {1}, length : {0, 1}]

\* Results of sqlite3_step on a write statement: done, or an error of the
\* engine (SQLITE_FULL, SQLITE_IOERR, SQLITE_BUSY, ...).
StepResults == {"SQLITE_DONE", "SQLITE_ERROR"}

\* What the engine does in one use of a cached statement with n parameters:
\* the first bind that fails (0 for none) and, when all bind, the result of
\* sqlite3_step.
EngineResults(n) ==
    {e \in [bind_fail : 0..n, step_result : StepResults] :
        e.bind_fail # 0 => e.step_result = "SQLITE_DONE"}

\* Flag words of DP_project_open.
OpenFlags ==
    {0, DP_PROJECT_OPEN_EXISTING, DP_PROJECT_OPEN_TRUNCATE,
     DP_PROJECT_OPEN_EXISTING + DP_PROJECT_OPEN_TRUNCATE}

\* The step of DP_project_open at which the engine fails, if any.
OpenFaults ==
    {"none", "open", "readonly", "vacuum", "is_empty", "application_id",
     "user_version", "check_header", "begin", "migrations_table",
     "migration_insert", "migration_ddl", "commit", "prepare"}

\* The engine fails to prepare a statement after the first one.
LaterPrepareFaults == {"prepare_session_open", "prepare_session_close"}

\* ------------------------------------------------------------------ state
VARIABLES
    file,           \* whether the file at the store's path exists
    db,             \* the content of the database file
    prj,            \* NULL, or "handle" while a DP_Project is open
    session_id,     \* prj->session_id
    sequence_id,    \* prj->sequence_id
    bindings,       \* the parameters bound on each cached statement
    error,          \* the error the last call set (DP_error_set), <<>> for none
    op,             \* the operation called last
    ret,            \* what it returned
    attempts,       \* history: the (session id, sequence id) pairs consumed by
                    \* message-record calls, in call order, since the store
                    \* was created or truncated
    interleaved,    \* history: a session-open was rejected in the open session
                    \* after that session consumed a sequence id
    input,          \* the file that DP_project_check is given, NULL when the
                    \* store is what is looked at
    sqlite          \* the connection of the last DP_project_open: whether
                    \* it is open, and for each slot of the statement
                    \* array whether a statement was prepared into it and
                    \* how often sqlite3_finalize was called on it

\* The client (net::Client).
VARIABLES
    servers,        \* the TcpServer objects the client has created, in the
                    \* order of their creation
    m_server,       \* which of them m_server points to, 0 for nullptr
    m_builtin,
    m_lastUrl,
    m_myId,
    m_moderator,
    m_isAuthenticated,
    m_supportsAutoReset,
    m_compatibilityMode,
    m_catchupTo,
    m_caughtUp,
    m_catchupProgress,
    call,           \* the operation or handler of the client that ran last,
                    \* with its arguments
    emitted,        \* the signals it emitted, in order
    sent,           \* the batches it handed to the transport
    reported,       \* history: the values passed to catchupProgress since
                    \* the last Catchup reply
    aborted         \* the program was ended by a failed assertion or a trap

storeVars ==
    <<file, db, prj, session_id, sequence_id, bindings, error, op, ret,
      attempts, interleaved, input, sqlite>>

connectionVars ==
    <<m_builtin, m_lastUrl, m_myId, m_moderator, m_isAuthenticated,
      m_supportsAutoReset, m_compatibilityMode>>

catchupVars == <<m_catchupTo, m_caughtUp, m_catchupProgress>>

clientVars ==
    <<servers, m_server, connectionVars, catchupVars, call, emitted, sent,
      reported, aborted>>

vars == <<storeVars, clientVars>>

\* ------------------------------------------------------------ the database
\* A database file without content: what sqlite3_open_v2 creates and what
\* the truncate flag leaves.
EmptyDb ==
    [application_id |-> 0, user_version |-> 0, tables |-> {},
     migrations |-> {}, sessions |-> {}, messages |-> {}]

\* The tables that migration 1 creates.
Migration1Tables == {"sessions", "messages", "snapshots", "snapshot_messages"}

is_ok(result) == result = "SQLITE_OK"

Max(S) == CHOOSE x \in S : \A y \in S : y <= x

\* Mutant: the rowid is counted from the rows of unclosed sessions.
NextRowid_unclosed(rows) ==
    Cardinality({r \in rows : r.closed_at = NULL}) + 1

\* The rowid SQLite gives to a row inserted into a table with an integer
\* primary key: one more than the largest in the table.
NextRowid(rows) ==
    IF rows = {} THEN 1 ELSE Max({r.session_id : r \in rows}) + 1

\* What sqlite3_reset returns after sqlite3_step returned step_result.
ResetResult(step_result) ==
    IF step_result = "SQLITE_DONE" THEN "SQLITE_OK" ELSE step_result

\* ------------------------------------------------- the cached statements
\* ps_exec_write: the statement counts as executed when sqlite3_step is
\* done and the reset that follows is ok.
ps_exec_write(step_result, reset_result) ==
    IF step_result = "SQLITE_DONE" THEN is_ok(reset_result) ELSE FALSE

\* The error ps_exec_write leaves in the error slot.
ps_exec_write_error(ps, step_result, reset_result, old) ==
    IF step_result = "SQLITE_DONE"
    THEN IF is_ok(reset_result) THEN old ELSE <<"resetting", ps>>
    ELSE <<"executing", ps>>

\* The parameters bound when the binds 1..n run in order and stop at the
\* first that fails (bind_fail, 0 for none).
BoundParams(n, bind_fail) ==
    IF bind_fail = 0 THEN 1..n ELSE 1..(bind_fail - 1)

ps_clear_bindings(b, ps) == [b EXCEPT ![ps] = {}]

\* "insert into sessions (...) values (?, ?, ?, ?, unixepoch('subsec'))"
SessionInsert(d, source_type, source_param, protocol) ==
    [d EXCEPT !.sessions = @ \cup
        {[session_id |-> NextRowid(@), source_type |-> source_type,
          source_param |-> source_param, protocol |-> protocol,
          closed_at |-> NULL]}]

\* "update sessions set closed_at = unixepoch('subsec') where session_id = ?"
SessionUpdate(d, sid) ==
    [d EXCEPT !.sessions =
        {IF r.session_id = sid THEN [r EXCEPT !.closed_at = "time"] ELSE r :
            r \in @}]

\* Mutant: the session id and the sequence id bound to each other's
\* parameter of the insert.
MessageInsert_swapped(d, sid, seq, msg) ==
    [d EXCEPT !.messages = @ \cup
        {[session_id |-> seq, sequence_id |-> sid, type |-> msg.type,
          context_id |-> msg.context_id, body |-> msg.length]}]

\* "insert into messages (session_id, sequence_id, ...) values (...)"
MessageInsert(d, sid, seq, msg) ==
    [d EXCEPT !.messages = @ \cup
        {[session_id |-> sid, sequence_id |-> seq, type |-> msg.type,
          context_id |-> msg.context_id, body |-> msg.length]}]

\* The messages table's primary key (session_id, sequence_id): sqlite3_step
\* of the insert fails with a constraint error on a key that is present.
MessageStep(d, sid, seq, step_result) ==
    IF \E m \in d.messages : m.session_id = sid /\ m.sequence_id = seq
    THEN "SQLITE_CONSTRAINT"
    ELSE step_result

\* ------------------------------------------------------------- sessions
\* Mutant: the check for an open session is missing.
session_open_allowed_always(sid) == TRUE

\* DP_project_session_open opens a session only when none is open.
session_open_allowed(sid) == sid = 0

\* Mutant: the counter is not reset.
session_open_sequence_id_kept(seq) == seq

\* prj->sequence_id = 0LL, before the insert of the session row.
session_open_sequence_id(seq) == 0

\* out_insert_rowid of ps_exec_write: written only when the write is ok.
session_open_session_id(sid, write_ok, rowid) ==
    IF write_ok THEN rowid ELSE sid

DP_project_session_open(source_type, source_param, protocol, bind_fail, step_result) ==
    /\ prj # NULL
    /\ op' = "session_open"
    /\ UNCHANGED <<file, prj, attempts, input, sqlite>>
    /\ UNCHANGED clientVars
    /\ IF session_open_allowed(session_id)
       THEN LET binds_ok == bind_fail = 0
                reset_result == ResetResult(step_result)
                write_ok == binds_ok /\ ps_exec_write(step_result,
                                                      reset_result)
                inserted == binds_ok /\ step_result = "SQLITE_DONE"
            IN  /\ inserted => Cardinality(db.sessions) < MaxSessions
                /\ sequence_id' = session_open_sequence_id(sequence_id)
                /\ db' = IF inserted
                         THEN SessionInsert(db, source_type, source_param,
                                            protocol)
                         ELSE db
                /\ session_id' =
                       session_open_session_id(session_id, write_ok,
                                               NextRowid(db.sessions))
                /\ bindings' = ps_clear_bindings(
                       [bindings EXCEPT !["SESSION_OPEN"] =
                           @ \cup BoundParams(4, bind_fail)],
                       "SESSION_OPEN")
                /\ error' =
                       IF binds_ok
                       THEN ps_exec_write_error("SESSION_OPEN", step_result,
                                                reset_result, <<>>)
                       ELSE <<"binding", "SESSION_OPEN", ToString(bind_fail)>>
                /\ ret' = write_ok
                /\ interleaved' = FALSE
       ELSE /\ error' = <<"session already open", ToString(session_id)>>
            /\ ret' = FALSE
            /\ interleaved' = (interleaved \/ sequence_id > 0)
            /\ UNCHANGED <<db, session_id, sequence_id, bindings>>

\* Mutant: the current session id is not cleared.
session_close_session_id_kept(sid) == sid

\* prj->session_id = 0LL, before the update of the session row.
session_close_session_id(sid) == 0

\* A session-close that gives up the session only when the update went
\* through.
session_close_clears_on_success(sid, update_ok) ==
    IF update_ok THEN session_close_session_id(sid) ELSE sid

\* The session id is cleared before the update is bound and executed,
\* whatever comes of the update.
session_close_clears(sid, update_ok) == session_close_session_id(sid)

\* Mutant: nothing to close reported as the failure 0.
session_close_result_generic(sid, update_ok) == IF update_ok THEN 1 ELSE 0

\* The tri-state result of DP_project_session_close.
session_close_result(sid, update_ok) ==
    IF sid = 0 THEN -1 ELSE IF update_ok THEN 1 ELSE 0

\* The effect of DP_project_session_close on the handle and the database,
\* as a record of the new values (DP_project_close runs it too).
SessionClose(bind_fail, step_result) ==
    LET sid == session_id
        binds_ok == bind_fail = 0
        reset_result == ResetResult(step_result)
        update_ok == binds_ok /\ ps_exec_write(step_result, reset_result)
    IN  IF sid = 0
        THEN [db |-> db, session_id |-> session_id, bindings |-> bindings,
              error |-> <<>>, ret |-> session_close_result(sid, FALSE)]
        ELSE [db |-> IF binds_ok /\ step_result = "SQLITE_DONE"
                     THEN SessionUpdate(db, sid)
                     ELSE db,
              session_id |-> session_close_clears(sid, update_ok),
              bindings |-> [bindings EXCEPT !["SESSION_CLOSE"] =
                               @ \cup BoundParams(1, bind_fail)],
              error |-> IF binds_ok
                        THEN ps_exec_write_error("SESSION_CLOSE",
                                 step_result, reset_result, <<>>)
                        ELSE <<"binding", "SESSION_CLOSE", ToString(bind_fail)>>,
              ret |-> session_close_result(sid, update_ok)]

DP_project_session_close(bind_fail, step_result) ==
    /\ prj # NULL
    /\ op' = "session_close"
    /\ LET r == SessionClose(bind_fail, step_result)
       IN  /\ db' = r.db
           /\ session_id' = r.session_id
           /\ bindings' = r.bindings
           /\ error' = r.error
           /\ ret' = r.ret
    /\ interleaved' = FALSE
    /\ UNCHANGED <<file, prj, sequence_id, attempts, input, sqlite>>
    /\ UNCHANGED clientVars

\* ------------------------------------------------------------- messages
\* Mutant: the increment is missing.
next_sequence_id_stuck(seq) == seq

\* Mutant: the counter is incremented twice.
next_sequence_id_twice(seq) == seq + 2

\* ++prj->sequence_id: the counter after the increment.
next_sequence_id(seq) == seq + 1

\* Mutant: prj->sequence_id++, which binds the counter before the increment.
bound_sequence_id_post(seq) == seq

\* The value of ++prj->sequence_id, bound as the second parameter of the
\* insert: the counter after the increment.
bound_sequence_id(seq) == next_sequence_id(seq)

\* An insert that binds the id before the current session's.
bound_session_id_previous(sid) == sid - 1

\* The session id bound as the first parameter of the insert: the
\* handle's current session id, read on entry.
bound_session_id(sid) == sid

\* Mutant: the check for an open session is missing.
message_record_proceeds_any(sid, length) == length # 0

\* Whether DP_project_message_record goes on to the insert: a session is
\* open and the body serialized to a length that is not 0.
message_record_proceeds(sid, length) == sid # 0 /\ length # 0

DP_project_message_record(msg, bind_fail, step_result) ==
    /\ prj # NULL
    /\ op' = "message_record"
    /\ UNCHANGED <<file, prj, session_id, interleaved, input, sqlite>>
    /\ UNCHANGED clientVars
    /\ LET sid == session_id
           length == msg.length
       IN  IF ~message_record_proceeds(sid, length)
           THEN /\ error' = IF sid = 0 THEN <<"No open session">> ELSE <<>>
                /\ ret' = FALSE
                /\ UNCHANGED <<db, sequence_id, bindings, attempts>>
           ELSE IF bind_fail = 1
           THEN \* the first bind fails: && never evaluates ++sequence_id
                /\ error' = <<"binding", "MESSAGE_INSERT", "1">>
                /\ ret' = FALSE
                /\ bindings' = ps_clear_bindings(bindings, "MESSAGE_INSERT")
                /\ UNCHANGED <<db, sequence_id, attempts>>
           ELSE LET seq == bound_sequence_id(sequence_id)
                    binds_ok == bind_fail = 0
                    step == MessageStep(db, bound_session_id(sid), seq,
                                        step_result)
                    reset_result == ResetResult(step)
                    write_ok == binds_ok /\ ps_exec_write(step, reset_result)
                    inserted == binds_ok /\ step = "SQLITE_DONE"
                IN  /\ Len(attempts) < MaxAttempts
                    /\ sequence_id' = next_sequence_id(sequence_id)
                    /\ db' = IF inserted
                             THEN MessageInsert(db, bound_session_id(sid),
                                                seq, msg)
                             ELSE db
                    /\ bindings' = ps_clear_bindings(
                           [bindings EXCEPT !["MESSAGE_INSERT"] =
                               @ \cup BoundParams(5, bind_fail)],
                           "MESSAGE_INSERT")
                    /\ error' =
                           IF binds_ok
                           THEN ps_exec_write_error("MESSAGE_INSERT", step,
                                                    reset_result, <<>>)
                           ELSE <<"binding", "MESSAGE_INSERT",
                                  ToString(bind_fail)>>
                    /\ ret' = write_ok
                    /\ attempts' = Append(attempts,
                           [session_id |-> sid, sequence_id |-> seq,
                            written |-> inserted])

\* ------------------------------------------------------- open and close
has_flag(flags, flag) == (flags \div flag) % 2 = 1

\* Mutant: SQLITE_OPEN_CREATE is passed whatever the flags are.
db_open_creates_always(flags) == TRUE

\* db_open_flags has SQLITE_OPEN_CREATE unless only_existing is set.
db_open_creates(flags) == ~has_flag(flags, DP_PROJECT_OPEN_EXISTING)

\* Mutant: every store is taken for empty, so that its header is set anew.
is_empty_db_always(d) == TRUE

\* is_empty_db: "select 1 from sqlite_master limit 1" gives no row.
is_empty_db(d) == d.tables = {}

\* init_header: pragma application_id, then pragma user_version.
init_header(d, fault) ==
    IF fault = "application_id"
    THEN [ok |-> FALSE, db |-> d, error |-> <<"setting application_id">>]
    ELSE IF fault = "user_version"
    THEN [ok |-> FALSE,
          db |-> [d EXCEPT !.application_id = DP_PROJECT_APPLICATION_ID],
          error |-> <<"setting user_version">>]
    ELSE [ok |-> TRUE,
          db |-> [d EXCEPT !.application_id = DP_PROJECT_APPLICATION_ID,
                           !.user_version = DP_PROJECT_USER_VERSION],
          error |-> <<>>]

\* check_header: the two pragmas are read and compared with the constants.
check_header(d, fault) ==
    IF fault = "check_header"
    THEN [ok |-> FALSE, error |-> <<"executing statement", "pragma">>]
    ELSE IF d.application_id # DP_PROJECT_APPLICATION_ID
    THEN [ok |-> FALSE, error |-> <<"File has incorrect application id">>]
    ELSE IF d.user_version # DP_PROJECT_USER_VERSION
    THEN [ok |-> FALSE, error |-> <<"File has unknown user version">>]
    ELSE [ok |-> TRUE, error |-> <<>>]

\* The number of entries of the migrations array.
NumMigrations == 1

\* The DDL of migration i: it fails when a table it creates exists.
MigrationDdl(d, i, fault) ==
    IF fault = "migration_ddl" \/ d.tables \cap Migration1Tables # {}
    THEN [ok |-> FALSE, db |-> d, error |-> <<"executing migration">>]
    ELSE [ok |-> TRUE, db |-> [d EXCEPT !.tables = @ \cup Migration1Tables],
          error |-> <<>>]

\* Mutant: the DDL of a step is executed whether or not "insert or ignore"
\* recorded its id just now.
RECURSIVE MigrationLoop_every_open(_, _, _)
MigrationLoop_every_open(d, i, fault) ==
    IF i > NumMigrations
    THEN [ok |-> TRUE, db |-> d, error |-> <<>>]
    ELSE IF fault = "migration_insert"
    THEN [ok |-> FALSE, db |-> d, error |-> <<"inserting migration">>]
    ELSE LET r == MigrationDdl([d EXCEPT !.migrations = @ \cup {i}], i, fault)
         IN  IF r.ok THEN MigrationLoop_every_open(r.db, i + 1, fault) ELSE r

\* The loop of apply_migrations from migration i on: "insert or ignore" the
\* id, and execute the DDL when that changed a row.
RECURSIVE MigrationLoop(_, _, _)
MigrationLoop(d, i, fault) ==
    IF i > NumMigrations
    THEN [ok |-> TRUE, db |-> d, error |-> <<>>]
    ELSE IF fault = "migration_insert"
    THEN [ok |-> FALSE, db |-> d, error |-> <<"inserting migration">>]
    ELSE LET changes == IF i \in d.migrations THEN 0 ELSE 1
             d1 == [d EXCEPT !.migrations = @ \cup {i}]
         IN  IF changes > 0
             THEN LET r == MigrationDdl(d1, i, fault)
                  IN  IF r.ok
                      THEN MigrationLoop(r.db, i + 1, fault)
                      ELSE r
             ELSE MigrationLoop(d1, i + 1, fault)

apply_migrations(d, fault) ==
    IF fault = "migrations_table"
    THEN [ok |-> FALSE, db |-> d, error |-> <<"creating migrations table">>]
    ELSE MigrationLoop([d EXCEPT !.tables = @ \cup {"migrations"}], 1, fault)

\* Mutant: what the block wrote stays when the block or the commit fails.
tx_without_rollback(d, fault) ==
    IF fault = "begin"
    THEN [ok |-> FALSE, db |-> d, error |-> <<"opening transaction">>]
    ELSE LET r == apply_migrations(d, fault)
         IN  IF r.ok /\ fault # "commit"
             THEN r
             ELSE [ok |-> FALSE, db |-> r.db,
                   error |-> IF r.ok
                             THEN <<"committing transaction">>
                             ELSE r.error]

\* tx: begin, the block, commit; what the block wrote is rolled back when
\* the block or the commit fails (by try_rollback, or by sqlite3_close).
tx(d, fault) ==
    IF fault = "begin"
    THEN [ok |-> FALSE, db |-> d, error |-> <<"opening transaction">>]
    ELSE LET r == apply_migrations(d, fault)
         IN  IF r.ok /\ fault # "commit"
             THEN r
             ELSE [ok |-> FALSE, db |-> d,
                   error |-> IF r.ok
                             THEN <<"committing transaction">>
                             ELSE r.error]

\* The cached statements in the order of the enum, in which the loop of
\* DP_project_open prepares them.
StatementOrder == <<"MESSAGE_INSERT", "SESSION_OPEN", "SESSION_CLOSE">>

\* A statement array of which the first n slots hold a prepared statement.
Prepared(n) ==
    [ps \in DP_ProjectStatement |->
        [prepared |-> \E j \in 1..n : StatementOrder[j] = ps,
         finalized |-> 0]]

\* No connection: nothing opened, nothing prepared.
NoConnection == [open |-> FALSE, stmts |-> Prepared(0)]

\* The position in StatementOrder of the statement whose prepare fails,
\* 0 when every prepare succeeds.
PrepareFailure(fault) ==
    CASE fault = "prepare" -> 1
      [] fault = "prepare_session_open" -> 2
      [] fault = "prepare_session_close" -> 3
      [] OTHER -> 0

\* n calls of sqlite3_finalize on the slot ps.
finalize(stmts, ps, n) ==
    [stmts EXCEPT ![ps].finalized = @ + n]

\* sqlite3_close leaves the connection open (SQLITE_BUSY) while a
\* statement prepared on it has not been finalized.
close_leaves_open(stmts) ==
    \E ps \in DP_ProjectStatement :
        stmts[ps].prepared /\ stmts[ps].finalized = 0

\* The loop that prepares the cached statements. When the prepare of the
\* statement at position k fails, the clean-up loop runs once for each
\* statement prepared before it and calls sqlite3_finalize on stmts[i],
\* the slot of the failed one, which was never assigned (uninit); then
\* the connection is closed.
prepare_statements(fault) ==
    LET k == PrepareFailure(fault)
    IN  IF k = 0
        THEN [ok |-> TRUE, uninit |-> FALSE,
              sqlite |-> [open |-> TRUE,
                          stmts |-> Prepared(Len(StatementOrder))]]
        ELSE LET stmts == finalize(Prepared(k - 1), StatementOrder[k], k - 1)
             IN  [ok |-> FALSE, uninit |-> k - 1 > 0,
                  sqlite |-> [open |-> close_leaves_open(stmts),
                              stmts |-> stmts]]

\* DP_project_open on a path where the file exists or not (f) with content
\* d: whether a handle is returned, the file it leaves, whether the
\* truncation took place, the error it set, the connection it leaves and
\* whether it passed an unassigned pointer to the engine.
ProjectOpen(f, d, flags, fault) ==
    LET truncate == has_flag(flags, DP_PROJECT_OPEN_TRUNCATE)
        Fail(f1, d1, w, e) ==
            [prj |-> NULL, file |-> f1, db |-> d1, wiped |-> w, error |-> e,
             sqlite |-> NoConnection, uninit |-> FALSE]
    IN  IF (~f /\ ~db_open_creates(flags)) \/ fault = "open"
        THEN Fail(f, d, FALSE, <<"opening">>)
        ELSE IF fault = "readonly"
        THEN Fail(TRUE, d, FALSE, <<"opening", "database is read-only">>)
        ELSE IF ~truncate /\ fault = "is_empty"
        THEN Fail(TRUE, d, FALSE,
                  <<"executing statement", "select 1 from sqlite_master">>)
        ELSE LET wiped == truncate /\ fault # "vacuum"
                 d1 == IF wiped THEN EmptyDb ELSE d
                 empty == truncate \/ is_empty_db(d)
                 h == IF empty
                      THEN init_header(d1, fault)
                      ELSE [ok |-> TRUE, db |-> d1, error |-> <<>>]
                 c == check_header(h.db, fault)
                 t == tx(h.db, fault)
                 p == prepare_statements(fault)
             IN  IF ~h.ok
                 THEN Fail(TRUE, h.db, wiped, h.error)
                 ELSE IF ~c.ok
                 THEN Fail(TRUE, h.db, wiped, c.error)
                 ELSE IF ~t.ok
                 THEN Fail(TRUE, t.db, wiped, t.error)
                 ELSE IF ~p.ok
                 THEN [prj |-> NULL, file |-> TRUE, db |-> t.db,
                       wiped |-> wiped, error |-> <<"preparing statement">>,
                       sqlite |-> p.sqlite, uninit |-> p.uninit]
                 ELSE [prj |-> "handle", file |-> TRUE, db |-> t.db,
                       wiped |-> wiped, error |-> <<>>,
                       sqlite |-> p.sqlite, uninit |-> FALSE]

\* Mutant: the new handle takes up the session that the store holds
\* unclosed.
open_session_id_resumed(d) ==
    LET unclosed == {r.session_id : r \in {q \in d.sessions : q.closed_at = NULL}}
    IN  IF unclosed = {} THEN 0 ELSE Max(unclosed)

\* prj->session_id = 0LL in the new handle, whatever the store holds.
open_session_id(d) == 0

DP_project_open(flags, fault) ==
    /\ prj = NULL
    /\ op' = IF has_flag(flags, DP_PROJECT_OPEN_TRUNCATE)
             THEN "open_truncate"
             ELSE "open"
    /\ \E r \in {ProjectOpen(file, db, flags, fault)} :
           /\ prj' = r.prj
           /\ file' = r.file
           /\ db' = r.db
           /\ ret' \in IF r.uninit THEN {NULL, "crashed"} ELSE {r.prj}
           /\ error' = r.error
           /\ sqlite' = r.sqlite
           /\ attempts' = IF r.wiped THEN <<>> ELSE attempts
           /\ session_id' = IF r.prj = NULL THEN 0 ELSE open_session_id(r.db)
    /\ sequence_id' = 0
    /\ bindings' = [ps \in DP_ProjectStatement |-> {}]
    /\ interleaved' = FALSE
    /\ UNCHANGED input
    /\ UNCHANGED clientVars

\* Results of sqlite3_close.
CloseResults == {"SQLITE_OK", "SQLITE_BUSY"}

\* Mutant: a failed closing of the session makes the call fail.
project_close_result_strict(session_close_ret, close_result) ==
    session_close_ret # 0 /\ is_ok(close_result)

\* What DP_project_close returns for a handle: the result of
\* DP_project_session_close is only warned about.
project_close_result(session_close_ret, close_result) == is_ok(close_result)

DP_project_close(bind_fail, step_result, close_result) ==
    /\ op' = "close"
    /\ IF prj = NULL
       THEN /\ error' = <<"Project is null">>
            /\ ret' = FALSE
            /\ UNCHANGED <<db, prj, session_id, sequence_id, bindings,
                           sqlite>>
       ELSE LET r == SessionClose(bind_fail, step_result)
            IN  /\ db' = r.db
                /\ sqlite' =
                       [open |-> ~is_ok(close_result),
                        stmts |-> [ps \in DP_ProjectStatement |->
                                      finalize(sqlite.stmts, ps, 1)[ps]]]
                /\ prj' = NULL
                /\ session_id' = 0
                /\ sequence_id' = 0
                /\ bindings' = [ps \in DP_ProjectStatement |-> {}]
                /\ error' = IF is_ok(close_result)
                            THEN r.error
                            ELSE <<"closing project">>
                /\ ret' = project_close_result(r.ret, close_result)
    /\ interleaved' = FALSE
    /\ UNCHANGED <<file, attempts, input>>
    /\ UNCHANGED clientVars

\* ------------------------------------------------------ the header check
DP_PROJECT_CHECK_ERROR_OPEN == -1
DP_PROJECT_CHECK_ERROR_READ == -2
DP_PROJECT_CHECK_ERROR_HEADER == -3
DP_PROJECT_CHECK_ERROR_MAGIC == -4
DP_PROJECT_CHECK_ERROR_APPLICATION_ID == -5
DP_PROJECT_CHECK_ERROR_USER_VERSION == -6

\* sizeof(buffer): the bytes DP_project_check reads from the file.
BufferSize == 72

\* "SQLite format 3\0" in ASCII.
magic ==
    <<83, 81, 76, 105, 116, 101, 32, 102, 111, 114, 109, 97, 116, 32, 51, 0>>

Zeros(n) == [i \in 1..n |-> 0]

\* The four bytes of a 32-bit integer in two's complement, the most
\* significant first: how the file format stores the fields of its header.
Int32Bytes(v) ==
    LET w == IF v < 0 THEN (v + 2147483647) + 1 ELSE v
        top == (w \div 16777216) + (IF v < 0 THEN 128 ELSE 0)
    IN  <<top, (w \div 65536) % 256, (w \div 256) % 256, w % 256>>

\* A file is a record [opens, unreadable, length, magic, application_id,
\* user_version]: whether it can be opened and read, its length in bytes,
\* and what its first bytes hold (as far as it is long enough): 16 bytes of
\* magic, the user version at offset 60, the application id at offset 68.
FileBytes(F) ==
    LET whole == F.magic \o Zeros(44) \o Int32Bytes(F.user_version)
                     \o Zeros(4) \o Int32Bytes(F.application_id)
    IN  SubSeq(whole, 1, IF F.length < Len(whole) THEN F.length ELSE Len(whole))

\* The file of the store: nothing is written to a database without content,
\* and the header with its two pragma fields is when there is any.
StoreFile(f, d) ==
    [opens |-> f, unreadable |-> FALSE,
     length |-> IF d = EmptyDb THEN 0 ELSE 4096,
     magic |-> magic, application_id |-> d.application_id,
     user_version |-> d.user_version]

\* DP_input_read: up to size bytes from the start of the file.
DP_input_read(F, size) ==
    IF F.unreadable
    THEN [error |-> TRUE, read |-> 0, buffer |-> <<>>]
    ELSE LET bytes == FileBytes(F)
             n == IF Len(bytes) < size THEN Len(bytes) ELSE size
         IN  [error |-> FALSE, read |-> n, buffer |-> SubSeq(bytes, 1, n)]

\* DP_read_bigendian_int32 of the four bytes at buffer + offset.
DP_read_bigendian_int32(buffer, offset) ==
    LET top == IF buffer[offset + 1] >= 128
               THEN buffer[offset + 1] - 256
               ELSE buffer[offset + 1]
    IN  top * 16777216 + buffer[offset + 2] * 65536
            + buffer[offset + 3] * 256 + buffer[offset + 4]

\* Mutant: the two fields are read at each other's offset.
DP_project_check_swapped(F) ==
    IF ~F.opens
    THEN DP_PROJECT_CHECK_ERROR_OPEN
    ELSE LET r == DP_input_read(F, BufferSize)
         IN  IF r.error
             THEN DP_PROJECT_CHECK_ERROR_READ
             ELSE IF r.read < BufferSize
             THEN DP_PROJECT_CHECK_ERROR_HEADER
             ELSE IF SubSeq(r.buffer, 1, Len(magic)) # magic
             THEN DP_PROJECT_CHECK_ERROR_MAGIC
             ELSE IF DP_read_bigendian_int32(r.buffer, 60)
                         # DP_PROJECT_APPLICATION_ID
             THEN DP_PROJECT_CHECK_ERROR_APPLICATION_ID
             ELSE IF DP_read_bigendian_int32(r.buffer, 68) < 1
             THEN DP_PROJECT_CHECK_ERROR_USER_VERSION
             ELSE DP_read_bigendian_int32(r.buffer, 68)

\* Mutant: user_version < 0 in place of user_version < 1.
DP_project_check_zero(F) ==
    IF ~F.opens
    THEN DP_PROJECT_CHECK_ERROR_OPEN
    ELSE LET r == DP_input_read(F, BufferSize)
         IN  IF r.error
             THEN DP_PROJECT_CHECK_ERROR_READ
             ELSE IF r.read < BufferSize
             THEN DP_PROJECT_CHECK_ERROR_HEADER
             ELSE IF SubSeq(r.buffer, 1, Len(magic)) # magic
             THEN DP_PROJECT_CHECK_ERROR_MAGIC
             ELSE IF DP_read_bigendian_int32(r.buffer, 68)
                         # DP_PROJECT_APPLICATION_ID
             THEN DP_PROJECT_CHECK_ERROR_APPLICATION_ID
             ELSE IF DP_read_bigendian_int32(r.buffer, 60) < 0
             THEN DP_PROJECT_CHECK_ERROR_USER_VERSION
             ELSE DP_read_bigendian_int32(r.buffer, 60)

\* DP_project_check of the file F at the path.
DP_project_check(F) ==
    IF ~F.opens
    THEN DP_PROJECT_CHECK_ERROR_OPEN
    ELSE LET r == DP_input_read(F, BufferSize)
         IN  IF r.error
             THEN DP_PROJECT_CHECK_ERROR_READ
             ELSE IF r.read < BufferSize
             THEN DP_PROJECT_CHECK_ERROR_HEADER
             ELSE IF SubSeq(r.buffer, 1, Len(magic)) # magic
             THEN DP_PROJECT_CHECK_ERROR_MAGIC
             ELSE LET application_id == DP_read_bigendian_int32(r.buffer, 68)
                      user_version == DP_read_bigendian_int32(r.buffer, 60)
                  IN  IF application_id # DP_PROJECT_APPLICATION_ID
                      THEN DP_PROJECT_CHECK_ERROR_APPLICATION_ID
                      ELSE IF user_version < 1
                      THEN DP_PROJECT_CHECK_ERROR_USER_VERSION
                      ELSE user_version

\* A call of DP_project_check on the path of the file input.
CheckPath ==
    /\ op' = "check"
    /\ ret' = DP_project_check(input)
    /\ error' = <<>>
    /\ UNCHANGED <<file, db, prj, session_id, sequence_id, bindings,
                   attempts, interleaved, input, sqlite>>
    /\ UNCHANGED clientVars

\* ============================================================ the client
\* net::Client (client.cpp): the connection to a session server. The
\* transport, a TcpServer object, is the environment: it delivers the
\* events loggedIn, messagesReceived, loggingOut, gracefullyDisconnecting
\* and serverDisconnected to the client's handlers.

\* A signal the client emits, with its arguments.
Signal(name, args) == [signal |-> name, args |-> args]

\* A TcpServer as connectToServer creates it.
NewServer ==
    [state |-> "connecting",    \* connecting, logged_in or disconnected
     smooth |-> "default",      \* the last setSmoothEnabled: "on" or "off"
     logout |-> FALSE,          \* logout() was called
     deleteLater |-> FALSE,     \* deleteLater() was called
     delivered |-> 0]           \* the message batches it has delivered

\* The compatibility mode of a client that never logged in: off, as the
\* mode belongs to the active connection.
initial_compatibilityMode == FALSE

\* A client that was never connected.
NoClient ==
    /\ servers = <<>>
    /\ m_server = 0
    /\ m_builtin = FALSE
    /\ m_lastUrl = NULL
    /\ m_myId = 1
    /\ m_moderator = FALSE
    /\ m_isAuthenticated = FALSE
    /\ m_supportsAutoReset = FALSE
    /\ m_compatibilityMode = initial_compatibilityMode
    /\ m_catchupTo = 0
    /\ m_caughtUp = 0
    /\ m_catchupProgress = 0
    /\ call = [name |-> "none"]
    /\ emitted = <<>>
    /\ sent = <<>>
    /\ reported = <<>>
    /\ aborted = FALSE

\* isConnected(): the client has a connection object.
isConnected == m_server # 0

\* The connection objects on which deleteLater() was not called.
LiveServers == {s \in DOMAIN servers : ~servers[s].deleteLater}

\* The sequences over S of length up to n.
SeqsUpTo(S, n) == UNION {[1..k -> S] : k \in 0..n}

\* ------------------------------------------------------ int arithmetic
\* a + b in int: the sum modulo 2^32 and whether it overflowed.
AddInt(a, b) ==
    IF b > 0 /\ a > INT_MAX - b
    THEN [value |-> ((a - INT_MAX) - 1) + ((b - INT_MAX) - 1),
          overflow |-> TRUE]
    ELSE IF b < 0 /\ a < ((-INT_MAX) - 1) - b
    THEN [value |-> ((a + INT_MAX) + 1) + ((b + INT_MAX) + 1),
          overflow |-> TRUE]
    ELSE [value |-> a + b, overflow |-> FALSE]

\* 100 * x in int: the product modulo 2^32, by doubling, and whether it
\* overflowed.
Times100(x) ==
    LET Twice(v) == AddInt(v, v).value
        x4 == Twice(Twice(x))
        x32 == Twice(Twice(Twice(x4)))
        x64 == Twice(x32)
    IN  [value |-> AddInt(AddInt(x64, x32).value, x4).value,
         overflow |-> x > INT_MAX \div 100 \/ x < -(INT_MAX \div 100)]

\* n / d in int for d > 0: the quotient rounded towards zero.
DivInt(n, d) ==
    IF n >= 0
    THEN n \div d
    ELSE LET a == -(n + 1)
         IN  -((a \div d) + (IF a % d = d - 1 THEN 1 ELSE 0))

\* What a signed overflow does: the build wraps around or traps.
OverflowOutcomes == {"wrap", "trap"}

\* ------------------------------------------------------------- sending
\* The messages the caller sends: one whose form both protocol versions
\* share, one that has another form in the old protocol, one that has
\* none.
OutboundMessages == {"PenUp", "DrawDabsClassic", "SelectionPut"}

\* net::makeMessageBackwardCompatible: the form of the message in the old
\* protocol, null when it has none.
makeMessageBackwardCompatible(msg) ==
    CASE msg = "PenUp" -> "PenUp"
      [] msg = "DrawDabsClassic" -> "DrawDabsClassic/compat"
      [] OTHER -> NULL

\* Mutant: the filter stops at the first message without a compatible
\* form.
RECURSIVE filterCompatibleMessages_stop(_)
filterCompatibleMessages_stop(msgs) ==
    IF msgs = <<>>
    THEN <<>>
    ELSE LET compatibleMsg == makeMessageBackwardCompatible(Head(msgs))
         IN  IF compatibleMsg = NULL
             THEN <<>>
             ELSE <<compatibleMsg>> \o filterCompatibleMessages_stop(Tail(msgs))

\* filterCompatibleMessages: the compatible forms of the messages that
\* have one, in order.
RECURSIVE filterCompatibleMessages(_)
filterCompatibleMessages(msgs) ==
    IF msgs = <<>>
    THEN <<>>
    ELSE LET compatibleMsg == makeMessageBackwardCompatible(Head(msgs))
         IN  (IF compatibleMsg = NULL THEN <<>> ELSE <<compatibleMsg>>)
                 \o filterCompatibleMessages(Tail(msgs))

\* Mutant: local drawing commands are announced only when there is a
\* connection.
sendCompatible_online(reset, msgs) ==
    IF Len(msgs) > 0
    THEN [emitted |->
              IF m_server # 0
              THEN IF reset
                   THEN <<>>
                   ELSE <<Signal("drawingCommandsLocal", <<Len(msgs), msgs>>)>>
              ELSE <<Signal("messagesReceived", <<Len(msgs), msgs>>)>>,
          sent |-> IF m_server # 0
                   THEN <<[reset |-> reset, msgs |-> msgs]>>
                   ELSE <<>>]
    ELSE [emitted |-> <<>>, sent |-> <<>>]

\* sendCompatibleMessages and sendCompatibleResetMessages: a batch that is
\* not empty goes to the transport, or back to the subscribers when there
\* is no connection; only sendCompatibleMessages announces it as local
\* drawing commands first.
sendCompatible(reset, msgs) ==
    IF Len(msgs) > 0
    THEN [emitted |->
              (IF reset
               THEN <<>>
               ELSE <<Signal("drawingCommandsLocal", <<Len(msgs), msgs>>)>>)
              \o (IF m_server # 0
                  THEN <<>>
                  ELSE <<Signal("messagesReceived", <<Len(msgs), msgs>>)>>),
          sent |-> IF m_server # 0
                   THEN <<[reset |-> reset, msgs |-> msgs]>>
                   ELSE <<>>]
    ELSE [emitted |-> <<>>, sent |-> <<>>]

\* The batch that sendMessages and sendResetMessages pass on.
outbound(msgs) ==
    IF m_compatibilityMode THEN filterCompatibleMessages(msgs) ELSE msgs

sendMessages(msgs) ==
    /\ ~aborted
    /\ call' = [name |-> "sendMessages", msgs |-> msgs]
    /\ LET r == sendCompatible(FALSE, outbound(msgs))
       IN  emitted' = r.emitted /\ sent' = r.sent
    /\ UNCHANGED <<servers, m_server, connectionVars, catchupVars, reported,
                   aborted>>
    /\ UNCHANGED storeVars

sendResetMessages(msgs) ==
    /\ ~aborted
    /\ call' = [name |-> "sendResetMessages", msgs |-> msgs]
    /\ LET r == sendCompatible(TRUE, outbound(msgs))
       IN  emitted' = r.emitted /\ sent' = r.sent
    /\ UNCHANGED <<servers, m_server, connectionVars, catchupVars, reported,
                   aborted>>
    /\ UNCHANGED storeVars

\* ---------------------------------------------------------- connection
\* Mutant: the call replaces the connection object of a connected client.
connect_allowed_always(connected) == TRUE

\* Q_ASSERT(!isConnected()) of connectToServer: the call goes on only
\* for a client without a connection object and ends the program
\* otherwise.
connect_allowed(connected) == ~connected

\* A connectToServer that leaves the catch-up target as the last
\* connection left it.
connect_catchupTo_kept(catchupTo) == catchupTo

\* m_catchupTo = 0 at the end of connectToServer.
connect_catchupTo(catchupTo) == 0

\* connectToServer creates a TcpServer, connects its signals, announces
\* the connection, starts the login and resets the catch-up counters.
\* (In the mode HostRemote it also hands m_myId to the login handler.)
connectToServer(builtin) ==
    /\ ~aborted
    /\ call' = [name |-> "connectToServer", builtin |-> builtin]
    /\ IF ~connect_allowed(isConnected)
       THEN /\ aborted' = TRUE
            /\ UNCHANGED <<servers, m_server, connectionVars, catchupVars,
                           emitted, sent, reported>>
       ELSE /\ Len(servers) < MaxConnections
            /\ m_builtin' = builtin
            /\ servers' = Append(servers, NewServer)
            /\ m_server' = Len(servers) + 1
            /\ emitted' = <<Signal("serverConnected", <<"host", "port">>)>>
            /\ m_catchupTo' = connect_catchupTo(m_catchupTo)
            /\ m_caughtUp' = 0
            /\ m_catchupProgress' = 0
            /\ sent' = <<>>
            /\ reported' = <<>>
            /\ UNCHANGED <<m_lastUrl, m_myId, m_moderator, m_isAuthenticated,
                           m_supportsAutoReset, m_compatibilityMode, aborted>>
    /\ UNCHANGED storeVars

\* TcpServer::logout: the transport takes note of the request and reports
\* its outcome in later events.
logout(server) == [server EXCEPT !.logout = TRUE]

\* disconnectFromServer that lets go of the connection object at once.
disconnect_requested_server_dropped(server) == 0

\* The connection object of the client after disconnectFromServer, which
\* assigns nothing to m_server.
disconnect_requested_server(server) == server

\* disconnectFromServer asks the transport to log out, if there is one.
disconnectFromServer ==
    /\ ~aborted
    /\ call' = [name |-> "disconnectFromServer"]
    /\ servers' = IF m_server # 0
                  THEN [servers EXCEPT ![m_server] = logout(@)]
                  ELSE servers
    /\ emitted' = <<>>
    /\ sent' = <<>>
    /\ m_server' = disconnect_requested_server(m_server)
    /\ UNCHANGED <<connectionVars, catchupVars, reported, aborted>>
    /\ UNCHANGED storeVars

\* What the loggedIn event of the transport reports.
LoginEvents ==
    {[url |-> "drawpile://host/session", userid |-> 2, join |-> TRUE,
      auth |-> FALSE, moderator |-> FALSE, supportsAutoReset |-> TRUE,
      compatibilityMode |-> FALSE, joinPassword |-> ""],
     [url |-> "drawpile://host/session", userid |-> 2, join |-> TRUE,
      auth |-> TRUE, moderator |-> TRUE, supportsAutoReset |-> FALSE,
      compatibilityMode |-> TRUE, joinPassword |-> "secret"],
     [url |-> "drawpile://host/", userid |-> 1, join |-> FALSE,
      auth |-> TRUE, moderator |-> TRUE, supportsAutoReset |-> TRUE,
      compatibilityMode |-> FALSE, joinPassword |-> ""]}

\* A login that takes every server to speak the compatibility dialect.
login_compatibilityMode_assumed(compatibilityMode) == TRUE

\* m_compatibilityMode = compatibilityMode in handleConnect.
login_compatibilityMode(compatibilityMode) == compatibilityMode

\* The transport s reports the login: once, while it is connecting.
handleConnect(s, l) ==
    /\ ~aborted
    /\ s \in DOMAIN servers
    /\ servers[s].state = "connecting"
    /\ call' = [name |-> "handleConnect", login |-> l]
    /\ servers' = [servers EXCEPT ![s].state = "logged_in"]
    /\ m_lastUrl' = l.url
    /\ m_myId' = l.userid
    /\ m_moderator' = l.moderator
    /\ m_isAuthenticated' = l.auth
    /\ m_supportsAutoReset' = l.supportsAutoReset
    /\ m_compatibilityMode' = login_compatibilityMode(l.compatibilityMode)
    /\ emitted' = <<Signal("serverLoggedIn",
                           <<l.join, m_compatibilityMode', l.joinPassword>>)>>
    /\ sent' = <<>>
    /\ UNCHANGED <<m_server, m_builtin, catchupVars, reported, aborted>>
    /\ UNCHANGED storeVars

\* What the serverDisconnected event of the transport reports.
DisconnectEvents ==
    {[message |-> "", errorcode |-> "", localDisconnect |-> TRUE],
     [message |-> "Connection reset", errorcode |-> "", localDisconnect |-> FALSE],
     [message |-> "Session closed", errorcode |-> "closed", localDisconnect |-> FALSE]}

\* Mutant: the compatibility mode outlives the connection.
disconnect_compatibilityMode_kept(mode) == mode

\* m_compatibilityMode = false in handleDisconnect.
disconnect_compatibilityMode(mode) == FALSE

\* Mutant: the client keeps the connection object.
disconnected_server_kept(server) == server

\* m_server = nullptr in handleDisconnect.
disconnected_server(server) == 0

\* The transport s reports that the connection is gone: once, unless it
\* did so before. handleDisconnect asserts that the client is connected.
handleDisconnect(s, d) ==
    /\ ~aborted
    /\ s \in DOMAIN servers
    /\ servers[s].state # "disconnected"
    /\ call' = [name |-> "handleDisconnect", event |-> d]
    /\ IF ~isConnected
       THEN /\ aborted' = TRUE
            /\ UNCHANGED <<servers, m_server, connectionVars, emitted, sent>>
       ELSE /\ m_compatibilityMode' =
                   disconnect_compatibilityMode(m_compatibilityMode)
            /\ emitted' = <<Signal("serverDisconnected",
                                   <<d.message, d.errorcode,
                                     d.localDisconnect>>)>>
            /\ servers' = [servers EXCEPT ![s].state = "disconnected",
                                          ![m_server].deleteLater = TRUE]
            /\ m_server' = disconnected_server(m_server)
            /\ m_moderator' = FALSE
            /\ sent' = <<>>
            /\ UNCHANGED <<m_builtin, m_lastUrl, m_myId, m_isAuthenticated,
                           m_supportsAutoReset, aborted>>
    /\ UNCHANGED <<catchupVars, reported>>
    /\ UNCHANGED storeVars

\* The transport s reports that it is logging out, after logout() was
\* called on it: the client passes the event on.
serverDisconnecting(s) ==
    /\ ~aborted
    /\ s \in DOMAIN servers
    /\ servers[s].state # "disconnected"
    /\ servers[s].logout
    /\ call' = [name |-> "serverDisconnecting"]
    /\ emitted' = <<Signal("serverDisconnecting", <<>>)>>
    /\ sent' = <<>>
    /\ UNCHANGED <<servers, m_server, connectionVars, catchupVars, reported,
                   aborted>>
    /\ UNCHANGED storeVars

\* The reasons and messages of the gracefullyDisconnecting event.
GracefulDisconnects ==
    [reason : {"Kick", "Error", "Shutdown", "Other"}, message : {"", "bye"}]

\* A notice of the server ending the connection on which the client lets
\* go of the connection object.
gracefully_disconnecting_server_dropped(server) == 0

\* The connection object of the client after the gracefullyDisconnecting
\* event, whose handler assigns nothing to m_server.
gracefully_disconnecting_server(server) == server

\* The transport s reports that the server ends the connection: the
\* client tells the user why.
gracefullyDisconnecting(s, g) ==
    /\ ~aborted
    /\ s \in DOMAIN servers
    /\ servers[s].state # "disconnected"
    /\ call' = [name |-> "gracefullyDisconnecting", event |-> g]
    /\ emitted' =
           IF g.reason = "Kick"
           THEN <<Signal("youWereKicked", <<g.message>>)>>
           ELSE LET chat == CASE g.reason = "Error" -> "A server error occurred!"
                              [] g.reason = "Shutdown" -> "The server is shutting down!"
                              [] OTHER -> "Unknown error"
                IN  <<Signal("serverMessage",
                             <<IF g.message = ""
                               THEN <<chat>>
                               ELSE <<chat, g.message>>, TRUE>>)>>
    /\ sent' = <<>>
    /\ m_server' = gracefully_disconnecting_server(m_server)
    /\ UNCHANGED <<servers, connectionVars, catchupVars, reported, aborted>>
    /\ UNCHANGED storeVars

\* ------------------------------------------------------------ receiving
\* A server command with the reply it carries.
Reply(type) == [type |-> "SERVER_COMMAND", reply |-> type]

\* The reply that announces count messages to catch up on.
Catchup(count) == [type |-> "SERVER_COMMAND", reply |-> "Catchup", count |-> count]

\* The reply about a session reset in the given state.
Reset(state) == [type |-> "SERVER_COMMAND", reply |-> "Reset", state |-> state]

\* A data message of type user info to the user recipient.
UserInfo(recipient, info) ==
    [type |-> "DATA", recipient |-> recipient, info |-> info]

\* A classic or pixel dab message, and whether it carries the indirect
\* compatibility flag.
DrawDabs == [type |-> "DRAW_DABS", indirectCompatFlag |-> FALSE]

\* handleResetRequest that takes every state for "init".
handleResetRequest_any(st, msg) ==
    [st EXCEPT !.emitted = Append(@, Signal("needSnapshot", <<>>))]

\* handleResetRequest
handleResetRequest(st, msg) ==
    CASE msg.state = "init" ->
             [st EXCEPT !.emitted = Append(@, Signal("needSnapshot", <<>>))]
      [] msg.state = "reset" ->
             [st EXCEPT !.emitted = Append(@, Signal("sessionResetted", <<>>))]
      [] OTHER -> st

\* A Catchup reply that reports 0 whatever the count.
catchup_start_zero(count) == 0

\* What the Catchup reply reports: 0 when there are messages to catch up
\* on, 100 when there are none.
catchup_start(count) == IF count > 0 THEN 0 ELSE 100

\* handleServerReply on the handler's state st: the catch-up counters, the
\* smoothing of the connection and the signals emitted so far.
handleServerReply(st, msg) ==
    CASE msg.reply \in {"Message", "Alert", "Error", "Result"} ->
             [st EXCEPT !.emitted =
                 Append(@, Signal("serverMessage",
                                  <<msg.reply, msg.reply = "Alert">>))]
      [] msg.reply = "Log" ->
             [st EXCEPT !.emitted = Append(@, Signal("serverLog", <<>>))]
      [] msg.reply = "SessionConf" ->
             [st EXCEPT !.emitted =
                 Append(@, Signal("sessionConfChange", <<>>))]
      [] msg.reply = "ResetRequest" ->
             [st EXCEPT !.emitted =
                 Append(@, Signal("autoresetRequested", <<>>))]
      [] msg.reply = "Status" ->
             [st EXCEPT !.emitted =
                 Append(@, Signal("serverStatusUpdate", <<>>))]
      [] msg.reply = "Reset" -> handleResetRequest(st, msg)
      [] msg.reply = "Catchup" ->
             [st EXCEPT !.smooth = "off",
                        !.m_catchupTo = msg.count,
                        !.m_caughtUp = 0,
                        !.m_catchupProgress = 0,
                        !.emitted =
                            Append(@, Signal("catchupProgress",
                                             <<catchup_start(msg.count)>>)),
                        !.reported = <<catchup_start(msg.count)>>]
      [] OTHER -> st    \* Unknown, Login, SizeLimitWarning

\* handleData and handleUserInfo: user info that is addressed to this
\* user.
handleData(st, msg) ==
    IF msg.recipient = m_myId
    THEN CASE msg.info = "request_user_info" ->
                  [st EXCEPT !.emitted =
                      Append(@, Signal("userInfoRequested", <<>>))]
           [] msg.info = "user_info" ->
                  [st EXCEPT !.emitted =
                      Append(@, Signal("userInfoReceived", <<>>))]
           [] OTHER -> st
    ELSE st

\* The loop of handleMessages over the messages of the batch that it
\* switches on; st.msgs collects them as they are passed on.
RECURSIVE handleEach(_, _)
handleEach(st, msgs) ==
    IF msgs = <<>>
    THEN st
    ELSE LET msg == Head(msgs)
             st1 == CASE msg.type = "SERVER_COMMAND" ->
                             handleServerReply(st, msg)
                      [] msg.type = "DATA" -> handleData(st, msg)
                      [] OTHER -> st
             msg1 == IF msg.type = "DRAW_DABS" /\ m_compatibilityMode
                     THEN [msg EXCEPT !.indirectCompatFlag = TRUE]
                     ELSE msg
         IN  handleEach([st1 EXCEPT !.msgs = Append(@, msg1)], Tail(msgs))

\* if(progress != m_catchupProgress)
progress_changed(progress, last) == progress # last

\* The end of handleMessages: the batch counts towards a catch-up that is
\* under way. overflow says whether an int overflowed on the way.
countCatchup(st, count) ==
    IF st.m_catchupTo > 0
    THEN LET sum == AddInt(st.m_caughtUp, count)
             caughtUp == sum.value
         IN  IF caughtUp >= st.m_catchupTo
             THEN [st EXCEPT !.m_caughtUp = caughtUp,
                             !.m_catchupTo = 0,
                             !.smooth = "on",
                             !.emitted =
                                 Append(@, Signal("catchupProgress", <<100>>)),
                             !.reported = Append(@, 100),
                             !.overflow = sum.overflow]
             ELSE LET product == Times100(caughtUp)
                      progress == DivInt(product.value, st.m_catchupTo)
                      st1 == [st EXCEPT !.m_caughtUp = caughtUp,
                                        !.overflow = sum.overflow
                                                     \/ product.overflow]
                  IN  IF progress_changed(progress, st.m_catchupProgress)
                      THEN [st1 EXCEPT
                               !.m_catchupProgress = progress,
                               !.emitted =
                                   Append(@, Signal("catchupProgress",
                                                    <<progress>>)),
                               !.reported = Append(@, progress)]
                      ELSE st1
    ELSE st

\* TcpServer emits messagesReceived for a session it has logged in to,
\* and not after it has emitted serverDisconnected.
delivers(server) == server.state = "logged_in"

\* m_server->setSmoothEnabled(enabled), with the smoothing the handler
\* arrived at.
setSmoothEnabled(connections, smooth) ==
    IF m_server # 0
    THEN [connections EXCEPT ![m_server].smooth = smooth]
    ELSE connections

\* Whether the handler called m_server->setSmoothEnabled: for a Catchup
\* reply among the messages and at the end of a catch-up, where counting
\* and counted are the handler's state before and after the counting.
usesServer(msgs, counting, counted) ==
    \/ \E i \in 1..Len(msgs) :
           msgs[i].type = "SERVER_COMMAND" /\ msgs[i].reply = "Catchup"
    \/ counting.m_catchupTo > 0 /\ counted.m_catchupTo = 0

\* emit messagesReceived(count, msgs), before the loop instead of after it.
notifyReceived_first(st, count) ==
    [st EXCEPT !.emitted =
        <<Signal("messagesReceived", <<count, st.msgs>>)>> \o @]

\* emit messagesReceived(count, msgs), once the loop is through.
notifyReceived(st, count) ==
    [st EXCEPT !.emitted =
        Append(@, Signal("messagesReceived", <<count, st.msgs>>))]

\* The transport s delivers a batch of count messages, of which msgs are
\* those that handleMessages switches on, in their order. outcome is what
\* the build does when an int overflows.
handleMessages(s, count, msgs, outcome) ==
    /\ ~aborted
    /\ s \in DOMAIN servers
    /\ delivers(servers[s])
    /\ servers[s].delivered < MaxBatches
    /\ Len(msgs) <= count
    /\ call' = [name |-> "handleMessages", count |-> count, msgs |-> msgs]
    /\ LET st0 == [m_catchupTo |-> m_catchupTo, m_caughtUp |-> m_caughtUp,
                   m_catchupProgress |-> m_catchupProgress,
                   smooth |-> IF m_server # 0
                              THEN servers[m_server].smooth
                              ELSE "none",
                   emitted |-> <<>>, reported |-> reported, msgs |-> <<>>,
                   overflow |-> FALSE]
           st1 == handleEach(st0, msgs)
           st2 == notifyReceived(st1, count)
           st3 == countCatchup(st2, count)
       IN  IF st3.overflow /\ outcome = "trap"
           THEN /\ aborted' = TRUE
                /\ emitted' = st2.emitted
                /\ reported' = st2.reported
                /\ m_catchupTo' = st2.m_catchupTo
                /\ m_caughtUp' = st2.m_caughtUp
                /\ m_catchupProgress' = st2.m_catchupProgress
                /\ servers' = setSmoothEnabled(
                       [servers EXCEPT ![s].delivered = @ + 1], st2.smooth)
           ELSE /\ aborted' \in IF m_server = 0 /\ usesServer(msgs, st2, st3)
                               THEN BOOLEAN   \* a call on a null pointer
                               ELSE {FALSE}
                /\ emitted' = st3.emitted
                /\ reported' = st3.reported
                /\ m_catchupTo' = st3.m_catchupTo
                /\ m_caughtUp' = st3.m_caughtUp
                /\ m_catchupProgress' = st3.m_catchupProgress
                /\ servers' = setSmoothEnabled(
                       [servers EXCEPT ![s].delivered = @ + 1], st3.smooth)
    /\ sent' = <<>>
    /\ UNCHANGED <<m_server, connectionVars>>
    /\ UNCHANGED storeVars

\* ---------------------------------------------------------- specification
\* No handle, and nothing called yet.
NoHandle ==
    /\ prj = NULL
    /\ session_id = 0
    /\ sequence_id = 0
    /\ bindings = [ps \in DP_ProjectStatement |-> {}]
    /\ error = <<>>
    /\ op = "init"
    /\ ret = NULL
    /\ attempts = <<>>
    /\ interleaved = FALSE
    /\ sqlite = NoConnection

\* The store at a path where no file exists yet.
Init ==
    /\ file = FALSE
    /\ db = EmptyDb
    /\ NoHandle
    /\ input = NULL
    /\ NoClient

Next ==
    \/ \E flags \in OpenFlags, fault \in OpenFaults :
           DP_project_open(flags, fault)
    \/ \E e \in EngineResults(1), close_result \in CloseResults :
           DP_project_close(e.bind_fail, e.step_result, close_result)
    \/ \E source_type \in SourceTypes, source_param \in SourceParams,
          protocol \in Protocols, e \in EngineResults(4) :
           DP_project_session_open(source_type, source_param, protocol,
                                   e.bind_fail, e.step_result)
    \/ \E e \in EngineResults(1) :
           DP_project_session_close(e.bind_fail, e.step_result)
    \/ \E msg \in Messages, e \in EngineResults(5) :
           DP_project_message_record(msg, e.bind_fail, e.step_result)

Spec == Init /\ [][Next]_vars

\* A store as migration 1 leaves it, with the rows given.
MigratedDb(sessions) ==
    [application_id |-> DP_PROJECT_APPLICATION_ID,
     user_version |-> DP_PROJECT_USER_VERSION,
     tables |-> Migration1Tables \cup {"migrations"},
     migrations |-> 1..NumMigrations, sessions |-> sessions, messages |-> {}]

\* A closed session row.
ClosedSession ==
    [session_id |-> 1, source_type |-> DP_PROJECT_SOURCE_BLANK,
     source_param |-> NULL, protocol |-> "dp:4.24.0", closed_at |-> "time"]

\* What the path given to DP_project_open may hold: no file; a file of 0
\* bytes; a database without tables whose header another program set; the
\* database of another application; a store of a later schema version,
\* with a session row; a database with this application's header in which
\* a table of migration 1 was made by hand; a store with a session row.
InitialStores ==
    {[file |-> FALSE, db |-> EmptyDb],
     [file |-> TRUE, db |-> EmptyDb],
     [file |-> TRUE,
      db |-> [EmptyDb EXCEPT !.application_id = 1, !.user_version = 2]],
     [file |-> TRUE, db |-> [EmptyDb EXCEPT !.tables = {"foreign"}]],
     [file |-> TRUE,
      db |-> [MigratedDb({ClosedSession}) EXCEPT !.user_version = 2]],
     [file |-> TRUE,
      db |-> [MigratedDb({}) EXCEPT !.tables = {"sessions"},
                                    !.migrations = {}]],
     [file |-> TRUE, db |-> MigratedDb({ClosedSession})]}

\* DP_project_open and DP_project_close on a path that holds any of these.
OpenInit ==
    /\ \E s \in InitialStores : file = s.file /\ db = s.db
    /\ NoHandle
    /\ input = NULL
    /\ NoClient

OpenNext ==
    \/ \E flags \in OpenFlags, fault \in OpenFaults \cup LaterPrepareFaults :
           DP_project_open(flags, fault)
    \/ \E e \in EngineResults(1), close_result \in CloseResults :
           DP_project_close(e.bind_fail, e.step_result, close_result)

OpenSpec == OpenInit /\ [][OpenNext]_vars

\* The files DP_project_check is given.
CheckFiles ==
    [opens : BOOLEAN, unreadable : BOOLEAN, length : {0, 71, 72, 4096},
     magic : {magic, [magic EXCEPT ![15] = 50], [magic EXCEPT ![16] = 1]},
     application_id : {DP_PROJECT_APPLICATION_ID, 0, -1},
     user_version : {-1, 0, DP_PROJECT_USER_VERSION, 2, 2147483647}]

\* DP_project_check on each of them.
CheckInit ==
    /\ file = FALSE
    /\ db = EmptyDb
    /\ NoHandle
    /\ input \in CheckFiles
    /\ NoClient

CheckNext == CheckPath

CheckSpec == CheckInit /\ [][CheckNext]_vars

\* -------------------------------------------------------------- client
\* The batches the caller sends during the life of a connection.
LifecycleSends == {<<>>, <<"DrawDabsClassic", "SelectionPut">>}

\* The batches the transport delivers during the life of a connection.
LifecycleBatches == {<<>>, <<Catchup(2)>>, <<Reply("Message")>>}

\* The logins during the life of a connection: to a session in the
\* current protocol and to one in the old protocol.
LifecycleLogins == {l \in LoginEvents : l.join}

\* A client that was never connected, beside a store that is not used.
ClientInit ==
    /\ file = FALSE
    /\ db = EmptyDb
    /\ NoHandle
    /\ input = NULL
    /\ NoClient

\* The caller's operations and the transport's events in any order.
ClientNext ==
    \/ \E builtin \in BOOLEAN : connectToServer(builtin)
    \/ disconnectFromServer
    \/ \E msgs \in LifecycleSends : sendMessages(msgs)
    \/ \E msgs \in LifecycleSends : sendResetMessages(msgs)
    \/ \E s \in DOMAIN servers, l \in LifecycleLogins : handleConnect(s, l)
    \/ \E s \in DOMAIN servers, d \in DisconnectEvents : handleDisconnect(s, d)
    \/ \E s \in DOMAIN servers : serverDisconnecting(s)
    \/ \E s \in DOMAIN servers, g \in GracefulDisconnects :
           gracefullyDisconnecting(s, g)
    \/ \E s \in DOMAIN servers, msgs \in LifecycleBatches :
           handleMessages(s, 1, msgs, "wrap")

ClientSpec == ClientInit /\ [][ClientNext]_vars

\* The counts a Catchup reply declares.
CatchupCounts == {-1, 0, 1, 3, 30000000, INT_MAX}

\* The numbers of messages in a batch.
BatchSizes == {1, 2, 3, 21474837, 1073741824}

\* The messages of a batch during the catch-up.
CatchupBatches ==
    {<<>>, <<Reply("Message")>>, <<DrawDabs>>, <<Catchup(1), Catchup(3)>>}
        \cup {<<Catchup(count)>> : count \in CatchupCounts}

\* The client after connectToServer and the login l, beside a store that
\* is not used.
LoggedIn(l) ==
    /\ file = FALSE
    /\ db = EmptyDb
    /\ NoHandle
    /\ input = NULL
    /\ servers = <<[NewServer EXCEPT !.state = "logged_in"]>>
    /\ m_server = 1
    /\ m_builtin = FALSE
    /\ m_lastUrl = l.url
    /\ m_myId = l.userid
    /\ m_moderator = l.moderator
    /\ m_isAuthenticated = l.auth
    /\ m_supportsAutoReset = l.supportsAutoReset
    /\ m_compatibilityMode = l.compatibilityMode
    /\ m_catchupTo = 0
    /\ m_caughtUp = 0
    /\ m_catchupProgress = 0
    /\ call = [name |-> "handleConnect", login |-> l]
    /\ emitted = <<Signal("serverLoggedIn",
                          <<l.join, l.compatibilityMode, l.joinPassword>>)>>
    /\ sent = <<>>
    /\ reported = <<>>
    /\ aborted = FALSE

\* A client that has logged in to a session.
CatchupInit == \E l \in LoginEvents : LoggedIn(l)

\* The transport delivers batches of any size to it.
CatchupNext ==
    \E count \in BatchSizes, msgs \in CatchupBatches,
       outcome \in OverflowOutcomes :
        handleMessages(1, count, msgs, outcome)

CatchupSpec == CatchupInit /\ [][CatchupNext]_vars

\* The batches the caller sends.
OutboundBatches == SeqsUpTo(OutboundMessages, MaxMessages)

\* A client without a connection or logged in to a session.
SendInit == ClientInit \/ \E l \in LoginEvents : LoggedIn(l)

\* The caller sends batches and reset batches.
SendNext ==
    \/ \E msgs \in OutboundBatches : sendMessages(msgs)
    \/ \E msgs \in OutboundBatches : sendResetMessages(msgs)

SendSpec == SendInit /\ [][SendNext]_vars

\* The types of server replies.
ReplyTypes ==
    {"Unknown", "Login", "Message", "Alert", "Error", "Result", "Log",
     "SessionConf", "SizeLimitWarning", "ResetRequest", "Status", "Reset",
     "Catchup"}

\* The messages of an inbound batch that handleMessages switches on: the
\* server replies of every type, user info for this user and for others,
\* and dabs.
InboundMessages ==
    {Reply(type) : type \in ReplyTypes \ {"Reset", "Catchup"}}
        \cup {Reset(state) : state \in {"init", "reset", "other"}}
        \cup {Catchup(count) : count \in {0, 2}}
        \cup {UserInfo(recipient, info) :
                  recipient \in {1, 2},
                  info \in {"request_user_info", "user_info", "other"}}
        \cup {DrawDabs}

\* The messages that come in batches of two.
PairedMessages ==
    {Reply("Alert"), Reply("Login"), Reset("init"), Catchup(2),
     UserInfo(2, "user_info"), DrawDabs}

\* The batches of one or two of these messages, and one of three.
InboundBatches ==
    {<<m>> : m \in InboundMessages}
        \cup {<<m, n>> : m \in PairedMessages, n \in PairedMessages}
        \cup {<<Reply("Status"), Catchup(2), Reply("Log")>>}

\* A client that has logged in to a session receives them, alone or
\* followed by messages of other types.
InboundInit == \E l \in LoginEvents : LoggedIn(l)

InboundNext ==
    \E msgs \in InboundBatches, others \in {0, 1} :
        handleMessages(1, Len(msgs) + others, msgs, "wrap")

InboundSpec == InboundInit /\ [][InboundNext]_vars

\* ------------------------------------------------------------ observations
\* The message rows of session sid and their sequence ids.
Rows(sid) == {m \in db.messages : m.session_id = sid}

SeqIds(sid) == {m.sequence_id : m \in Rows(sid)}

\* The session rows whose close timestamp is null.
OpenSessions == {r \in db.sessions : r.closed_at = NULL}

\* The sequence ids that message-record calls of session sid consumed.
Consumed(sid) ==
    {attempts[i].sequence_id :
        i \in {j \in DOMAIN attempts : attempts[j].session_id = sid}}

\* The session ids that have message rows or consumed sequence ids.
RecordedSessions ==
    {m.session_id : m \in db.messages}
        \cup {attempts[i].session_id : i \in DOMAIN attempts}

\* The step taken is a call of the operation named o.
Called(o) == op' = o

\* --------------------------------------------------------------- claims

\* C1: DP_project_session_open called while a session is open returns
\* false, leaves the current session id and the sequence counter unchanged
\* and inserts no session row, whatever its arguments.
C1_OpenWhileOpen ==
    [][(Called("session_open") /\ session_id # 0) =>
          /\ ret' = FALSE
          /\ session_id' = session_id
          /\ sequence_id' = sequence_id
          /\ db' = db]_vars

\* C1 witness: a session-open was just rejected with a session open.
C1_Witness ==
    /\ op = "session_open"
    /\ ret = FALSE
    /\ session_id # 0
    /\ error = <<"session already open", ToString(session_id)>>

\* C2 (as claimed): at most one row of the sessions table has a null close
\* timestamp, in every reachable state, database write failures included.
C2_AtMostOneOpenSession == Cardinality(OpenSessions) <= 1

\* C3: when every message-record call made since the session was opened
\* succeeded, N of them, the rows of the session carry the sequence ids
\* 1..N, whatever rejected session-opens came between them.
C3_ConsecutiveRecords ==
    (/\ prj # NULL
     /\ session_id # 0
     /\ \A i \in DOMAIN attempts :
            attempts[i].session_id = session_id => attempts[i].written)
        => /\ SeqIds(session_id) = 1..Cardinality(Rows(session_id))
           /\ sequence_id = Cardinality(Rows(session_id))

\* C3 witness: two records succeeded from the start of a session, with a
\* rejected session-open after the first.
C3_Witness ==
    /\ op = "message_record"
    /\ ret = TRUE
    /\ interleaved
    /\ session_id # 0
    /\ SeqIds(session_id) = {1, 2}
    /\ Consumed(session_id) = {1, 2}

\* C4: no (session id, sequence id) pair is consumed by two message-record
\* calls of a store that is not truncated, and a message row, once written,
\* stays as it is.
C4_FreshPairs ==
    /\ [](\A i, j \in DOMAIN attempts :
            (attempts[i].session_id = attempts[j].session_id
             /\ attempts[i].sequence_id = attempts[j].sequence_id) => i = j)
    /\ [][~Called("open_truncate") => db.messages \subseteq db'.messages]_vars

\* C4 witness: two sessions of one store have recorded a message each, the
\* first of them closed by now.
C4_Witness ==
    /\ Len(attempts) = 2
    /\ attempts[1].session_id # attempts[2].session_id
    /\ attempts[1].written /\ attempts[2].written
    /\ session_id = attempts[2].session_id
    /\ \E r \in db.sessions :
           r.session_id = attempts[1].session_id /\ r.closed_at # NULL

\* C5 (as claimed): the sequence ids of the message rows of every session
\* form 1..k, also after message-record calls of the session failed.
C5_RowsContiguous ==
    \A sid \in RecordedSessions : SeqIds(sid) = 1..Cardinality(SeqIds(sid))

\* C5 (amended): the sequence ids consumed by the message-record calls of a
\* session form 1..k, each consumed once, and the rows of the session carry
\* exactly those whose insert succeeded.
C5_ConsumedContiguous ==
    \A sid \in RecordedSessions :
        /\ Consumed(sid) = 1..Cardinality(Consumed(sid))
        /\ Cardinality(Consumed(sid)) =
               Cardinality({i \in DOMAIN attempts :
                                attempts[i].session_id = sid})
        /\ SeqIds(sid) =
               {attempts[i].sequence_id :
                   i \in {j \in DOMAIN attempts :
                             /\ attempts[j].session_id = sid
                             /\ attempts[j].written}}

\* C5 witness: a session whose first insert failed and whose second
\* succeeded has the single row 2.
C5_Witness ==
    \E sid \in RecordedSessions : SeqIds(sid) = {2} /\ Consumed(sid) = {1, 2}

\* What a message-record call reports when it returns before the insert
\* statement is used: no open session, or a body of length 0.
ReturnedEarly ==
    ret' = FALSE /\ error' \in {<<"No open session">>, <<>>}

\* The call executed the insert statement (sqlite3_step): no bind failed.
InsertExecuted ==
    ret' = TRUE \/ error' = <<"executing", "MESSAGE_INSERT">>

\* C6 (as claimed): a message-record call increments the sequence counter
\* by one when it reaches the insert attempt, whether the insert succeeds
\* or fails, and leaves the counter unchanged when it does not reach it.
C6_IncrementOnInsertAttempt ==
    [][Called("message_record") =>
          IF InsertExecuted
          THEN sequence_id' = sequence_id + 1
          ELSE sequence_id' = sequence_id]_vars

\* C6 (amended): a message-record call increments the sequence counter by
\* one when the first parameter of the insert (the session id) binds,
\* whether the later binds and the insert succeed or fail, and leaves the
\* counter unchanged when it returns earlier or that first bind fails.
C6_IncrementAfterFirstBind ==
    [][Called("message_record") =>
          IF ReturnedEarly \/ error' = <<"binding", "MESSAGE_INSERT", "1">>
          THEN sequence_id' = sequence_id
          ELSE sequence_id' = sequence_id + 1]_vars

\* C6 witness: the first insert of a session failed and consumed sequence
\* id 1; the session has no row.
C6_Witness ==
    /\ op = "message_record"
    /\ ret = FALSE
    /\ error = <<"executing", "MESSAGE_INSERT">>
    /\ session_id # 0
    /\ sequence_id = 1
    /\ Rows(session_id) = {}

\* C7: DP_project_message_record called with no session open returns false
\* with the error "No open session", writes nothing and leaves the current
\* session id and the sequence counter unchanged.
C7_RecordWithoutSession ==
    [][(Called("message_record") /\ session_id = 0) =>
          /\ ret' = FALSE
          /\ error' = <<"No open session">>
          /\ db' = db
          /\ session_id' = 0
          /\ sequence_id' = sequence_id
          /\ attempts' = attempts]_vars

\* C7 witness: a message-record call was just refused for want of a session.
C7_Witness ==
    /\ op = "message_record"
    /\ ret = FALSE
    /\ error = <<"No open session">>
    /\ session_id = 0

\* A successful session-open: the counter is 0, one session row is new, its
\* close timestamp is null and its id is the current session id.
SessionOpened ==
    (Called("session_open") /\ ret' = TRUE) =>
        /\ sequence_id' = 0
        /\ db.sessions \subseteq db'.sessions
        /\ Cardinality(db'.sessions \ db.sessions) = 1
        /\ \A r \in db'.sessions \ db.sessions :
               /\ r.closed_at = NULL
               /\ r.session_id = session_id'
               /\ r.session_id \notin {q.session_id : q \in db.sessions}
        /\ session_id' # 0
        /\ db'.messages = db.messages

\* C8 (as claimed): every successful session-open resets the counter,
\* inserts one session row with a null close timestamp and makes its id
\* current, so the first message row of every session has sequence id 1.
C8_FirstRowIsOne ==
    /\ [][SessionOpened]_vars
    /\ [](\A sid \in RecordedSessions : SeqIds(sid) # {} => 1 \in SeqIds(sid))

\* C8 (amended): ... so the first message-record call of every session that
\* consumes a sequence id consumes 1, and the first row of the session has
\* sequence id 1 unless the insert of that call failed.
C8_FirstConsumedIsOne ==
    /\ [][SessionOpened]_vars
    /\ [](\A i \in DOMAIN attempts :
            (\A j \in 1..(i - 1) :
                attempts[j].session_id # attempts[i].session_id)
                => /\ attempts[i].sequence_id = 1
                   /\ attempts[i].written => 1 \in SeqIds(attempts[i].session_id))

\* C8 witness: the second session of a store recorded its first message
\* under sequence id 1 after the first session recorded one too.
C8_Witness ==
    /\ op = "message_record"
    /\ ret = TRUE
    /\ Len(attempts) = 2
    /\ attempts[1].session_id # attempts[2].session_id
    /\ attempts[1].written
    /\ session_id = attempts[2].session_id
    /\ SeqIds(session_id) = {1}

\* C9: DP_project_session_close with a session open whose update succeeds
\* returns 1, sets the close timestamp of that session's row and of no
\* other, and sets the current session id to 0.
C9_SessionClosed ==
    [][(Called("session_close") /\ session_id # 0 /\ error' = <<>>) =>
          /\ ret' = 1
          /\ session_id' = 0
          /\ \E r \in db.sessions :
                 r.session_id = session_id /\ r.closed_at = NULL
          /\ db'.sessions =
                 {IF r.session_id = session_id
                  THEN [r EXCEPT !.closed_at = "time"]
                  ELSE r : r \in db.sessions}
          /\ db'.messages = db.messages]_vars

\* C9 witness: a session was just closed while the row of an earlier
\* session, whose close failed, still has a null close timestamp.
C9_Witness ==
    /\ op = "session_close"
    /\ ret = 1
    /\ session_id = 0
    /\ Cardinality(db.sessions) = 2
    /\ Cardinality(OpenSessions) = 1

\* DP_project_session_close with no session open returns -1, executes no
\* statement and leaves the current session id at 0; a call that follows
\* another call of it finds no session and returns -1.
CloseWithoutSession ==
    /\ (Called("session_close") /\ session_id = 0) =>
           /\ ret' = -1
           /\ session_id' = 0
           /\ db' = db
           /\ bindings' = bindings
           /\ error' = <<>>
    /\ (Called("session_close") /\ op = "session_close") => ret' = -1

\* C10 (as claimed): ... hence two calls in a row with a session open
\* return 1 and then -1.
C10_CloseTwice ==
    [][/\ CloseWithoutSession
       /\ (Called("session_close") /\ session_id # 0) => ret' = 1]_vars

\* C10 (amended): ... hence two calls in a row with a session open return
\* 1 when the update succeeds, 0 when it fails, and then -1.
C10_CloseTwiceAmended ==
    [][/\ CloseWithoutSession
       /\ (Called("session_close") /\ session_id # 0) =>
              /\ ret' \in {0, 1}
              /\ ret' = 1 <=> error' = <<>>]_vars

\* C10 witness: session-close was just called with no session open.
C10_Witness ==
    /\ op = "session_close"
    /\ ret = -1
    /\ session_id = 0
    /\ db.sessions # {}

\* A handle was just returned by an open without the truncate flag.
Reopened == op = "open" /\ prj # NULL

\* C11 (as claimed): DP_project_close with a session open sets that
\* session's close timestamp before the database is closed, so that after
\* the store is reopened every session row is closed.
C11_ClosedAfterReopen ==
    /\ [][(Called("close") /\ prj # NULL /\ session_id # 0) =>
             \A r \in db'.sessions :
                 r.session_id = session_id => r.closed_at # NULL]_vars
    /\ [](Reopened => OpenSessions = {})

\* The session ids of the rows of the sessions table.
SessionIds(d) == {r.session_id : r \in d.sessions}

\* C12: the session id a successful DP_project_session_open assigns is
\* larger than every session id of the store; the ids are 1, 2, 3, ... from
\* a fresh store on, and no id leaves the store, so none is assigned again,
\* unless the store is opened with the truncate flag; closing and reopening
\* the handle in between changes nothing of this.
C12_SessionIdsIncrease ==
    /\ [][(Called("session_open") /\ ret' = TRUE) =>
             /\ \A sid \in SessionIds(db) : sid < session_id'
             /\ SessionIds(db') = SessionIds(db) \cup {session_id'}]_vars
    /\ [][~Called("open_truncate") =>
             SessionIds(db) \subseteq SessionIds(db')]_vars
    /\ [](/\ SessionIds(db) = 1..Cardinality(SessionIds(db))
          /\ Cardinality(db.sessions) = Cardinality(SessionIds(db)))

\* C12 witness: a store whose first session recorded a message and was
\* closed has just opened its second session, with id 2.
C12_Witness ==
    /\ op = "session_open"
    /\ ret = TRUE
    /\ session_id = 2
    /\ sequence_id = 0
    /\ attempts # <<>>
    /\ \E r \in db.sessions : r.session_id = 1 /\ r.closed_at # NULL

\* C13: every handle DP_project_open returns starts with the current
\* session id 0 and the sequence counter 0, whatever the store holds:
\* nothing, closed sessions, sessions left unclosed, or messages.
C13_HandleStartsAtZero ==
    (op \in {"open", "open_truncate"} /\ prj # NULL)
        => session_id = 0 /\ sequence_id = 0

\* C13 witness: a handle was just returned for a store that holds two
\* sessions, one of them unclosed, and a message.
C13_Witness ==
    /\ Reopened
    /\ session_id = 0
    /\ sequence_id = 0
    /\ Cardinality(db.sessions) = 2
    /\ OpenSessions # {}
    /\ db.messages # {}

\* DP_project_check on the path of the store.
CheckStore == DP_project_check(StoreFile(file, db))

\* The last call closed a handle.
HandleClosed == op = "close" /\ error # <<"Project is null">>

\* C14: a successful DP_project_open with default flags on a path without
\* a file leaves a file on which DP_project_check returns
\* DP_PROJECT_USER_VERSION, and so does whatever is called on the handle up
\* to and including DP_project_close.
C14_CheckAfterCreate ==
    /\ (~file /\ prj = NULL) =>
           \A fault \in OpenFaults :
               LET r == ProjectOpen(file, db, 0, fault)
               IN  r.prj # NULL =>
                       DP_project_check(StoreFile(r.file, r.db))
                           = DP_PROJECT_USER_VERSION
    /\ (prj # NULL \/ HandleClosed) => CheckStore = DP_PROJECT_USER_VERSION

\* C14 witness: a store that holds what a first open creates, and nothing
\* else, was just closed.
C14_Witness ==
    /\ HandleClosed
    /\ ret = TRUE
    /\ db = MigratedDb({})
    /\ CheckStore = DP_PROJECT_USER_VERSION

\* C15 (as claimed): a successful DP_project_open with the truncate flag
\* yields a store without session and message rows on which
\* DP_project_check returns the schema version, whether or not the store
\* was truncated before, and the next successful session-open on it is
\* assigned the session id 1.
C15_TruncateEmpties ==
    /\ []((op = "open_truncate" /\ prj # NULL) =>
             /\ db.sessions = {}
             /\ db.messages = {}
             /\ CheckStore = DP_PROJECT_USER_VERSION)
    /\ [][(op = "open_truncate" /\ Called("session_open") /\ ret' = TRUE)
             => session_id' = 1]_vars

\* C16: DP_project_open with the must-exist flag on a path without a file
\* returns null and creates no file, whatever the other flag is and
\* whatever the engine does, so that DP_project_check of the path returns
\* DP_PROJECT_CHECK_ERROR_OPEN after it as before it.
C16_MustExist ==
    ~file =>
        /\ CheckStore = DP_PROJECT_CHECK_ERROR_OPEN
        /\ prj = NULL
        /\ \A flags \in OpenFlags, fault \in OpenFaults :
               has_flag(flags, DP_PROJECT_OPEN_EXISTING) =>
                   LET r == ProjectOpen(file, db, flags, fault)
                   IN  /\ r.prj = NULL
                       /\ ~r.file
                       /\ r.error = <<"opening">>
                       /\ DP_project_check(StoreFile(r.file, r.db))
                              = DP_PROJECT_CHECK_ERROR_OPEN

\* C16 witness: an open was just refused on a path that has no file.
C16_Witness ==
    /\ op \in {"open", "open_truncate"}
    /\ ret = NULL
    /\ error = <<"opening">>
    /\ ~file
    /\ CheckStore = DP_PROJECT_CHECK_ERROR_OPEN

\* What DP_project_check looks at, in its order: the file opens, it reads
\* without error, it has at least 72 bytes, it starts with the magic, it
\* has the application id at offset 68, and a user version of at least 1
\* at offset 60.
CheckPasses(F) ==
    <<F.opens, ~F.unreadable, F.length >= 72, F.magic = magic,
      F.application_id = DP_PROJECT_APPLICATION_ID, F.user_version >= 1>>

\* The code of each of them.
CheckErrors ==
    <<DP_PROJECT_CHECK_ERROR_OPEN, DP_PROJECT_CHECK_ERROR_READ,
      DP_PROJECT_CHECK_ERROR_HEADER, DP_PROJECT_CHECK_ERROR_MAGIC,
      DP_PROJECT_CHECK_ERROR_APPLICATION_ID,
      DP_PROJECT_CHECK_ERROR_USER_VERSION>>

\* C17: DP_project_check returns a positive value exactly when the file
\* passes all six checks, and then the user version of the file; otherwise
\* it returns the code of the first check that fails, and the six codes are
\* negative and differ from each other.
C17_CheckResult ==
    op = "check" =>
        LET passes == CheckPasses(input)
            failing == {i \in DOMAIN passes : ~passes[i]}
        IN  /\ ret > 0 <=> failing = {}
            /\ failing = {} => ret = input.user_version
            /\ failing # {} =>
                   ret = CheckErrors[CHOOSE i \in failing :
                                         \A j \in failing : i <= j]
            /\ \A i, j \in DOMAIN CheckErrors :
                   /\ CheckErrors[i] < 0
                   /\ CheckErrors[i] = CheckErrors[j] => i = j

\* C17 witness: the check of a file that holds a later user version than
\* this program's returned that version.
C17_Witness ==
    /\ op = "check"
    /\ input.user_version = 2
    /\ ret = 2

\* The header of the database passes check_header.
HeaderPasses(d) ==
    /\ d.application_id = DP_PROJECT_APPLICATION_ID
    /\ d.user_version = DP_PROJECT_USER_VERSION

\* The errors of the steps of DP_project_open up to the reading of the
\* header.
EarlyOpenErrors ==
    {<<"opening">>, <<"opening", "database is read-only">>,
     <<"executing statement", "select 1 from sqlite_master">>,
     <<"setting application_id">>, <<"setting user_version">>,
     <<"executing statement", "pragma">>}

\* The errors of check_header on a header that does not pass.
HeaderErrors ==
    {<<"File has incorrect application id">>,
     <<"File has unknown user version">>}

\* C18: DP_project_open without the truncate flag on an existing store
\* that is not empty and whose application id or user version does not
\* pass the header check returns null and leaves the header, the tables
\* and the rows of the store as they are; on an empty store it sets the
\* application id and the user version before it checks them, so that the
\* check never turns an empty store down for its header.
C18_HeaderCheck ==
    /\ [][(Called("open") /\ file /\ db.tables # {} /\ ~HeaderPasses(db)) =>
             /\ ret' = NULL
             /\ db' = db
             /\ file' = file
             /\ error' \in EarlyOpenErrors \cup HeaderErrors]_vars
    /\ [][(Called("open") /\ db.tables = {}
               /\ error' \notin EarlyOpenErrors) =>
             /\ HeaderPasses(db')
             /\ error' \notin HeaderErrors]_vars

\* C18 witness: an open was just turned down for the application id of a
\* store that holds a table of another application.
C18_Witness ==
    /\ op = "open"
    /\ ret = NULL
    /\ error = <<"File has incorrect application id">>
    /\ db = [EmptyDb EXCEPT !.tables = {"foreign"}]

\* The tables the DDL of migration i creates.
MigrationTables(i) == IF i = 1 THEN Migration1Tables ELSE {}

\* C19: a successful open without the truncate flag executes the DDL of
\* exactly the migrations whose id the store has not recorded, none of
\* which was executed on this store before, and leaves the ids
\* 1..NumMigrations recorded; every open after it skips them all: it
\* succeeds and leaves the store as it is.
C19_MigrationsIdempotent ==
    /\ [][(Called("open") /\ ret' # NULL) =>
             LET pending == (1..NumMigrations) \ db.migrations
             IN  /\ db'.migrations = 1..NumMigrations
                 /\ \A i \in pending : MigrationTables(i) \cap db.tables = {}
                 /\ db'.tables =
                        db.tables \cup {"migrations"}
                            \cup UNION {MigrationTables(i) : i \in pending}
                 /\ db'.sessions = db.sessions
                 /\ db'.messages = db.messages]_vars
    /\ [](prj # NULL =>
             LET r == ProjectOpen(file, db, 0, "none")
             IN  r.prj # NULL /\ r.db = db)

\* C19 witness: a store that was migrated before, as its session row
\* shows, was just opened again.
C19_Witness ==
    /\ Reopened
    /\ db = MigratedDb({ClosedSession})

\* The errors of the steps of apply_migrations and of the commit.
MigrationErrors ==
    {<<"creating migrations table">>, <<"inserting migration">>,
     <<"executing migration">>, <<"committing transaction">>}

\* The call is a DP_project_open in which a step of apply_migrations, or
\* the commit, failed.
MigrationsFailed ==
    /\ Called("open") \/ Called("open_truncate")
    /\ error' \in MigrationErrors

\* No migration id is recorded without the tables of its DDL.
MigrationsApplied == \A i \in db.migrations : MigrationTables(i) \subseteq db.tables

\* C20 (as claimed): when a step of apply_migrations or the commit fails,
\* the open returns null and the migration ids and the tables of the store
\* are those from before the attempt; no id is ever recorded without its
\* DDL applied.
C20_MigrationFailure ==
    /\ [][MigrationsFailed =>
             /\ ret' = NULL
             /\ db'.migrations = db.migrations
             /\ db'.tables = db.tables]_vars
    /\ []MigrationsApplied

\* C20 (amended): ... the migration ids and the tables of the store are
\* those from before apply_migrations began: those from before the attempt,
\* or none when the open has the truncate flag and emptied the store
\* first; no id is ever recorded without its DDL applied.
C20_MigrationFailureAmended ==
    /\ [][MigrationsFailed =>
             /\ ret' = NULL
             /\ \/ db'.migrations = db.migrations /\ db'.tables = db.tables
                \/ /\ Called("open_truncate")
                   /\ db'.migrations = {}
                   /\ db'.tables = {}]_vars
    /\ []MigrationsApplied

\* C20 witness: the DDL of migration 1 just failed on a store that has a
\* table of that name already; neither the migrations table nor the id 1
\* stayed.
C20_Witness ==
    /\ op = "open"
    /\ ret = NULL
    /\ error = <<"executing migration">>
    /\ db.tables = {"sessions"}
    /\ db.migrations = {}


\* DP_project_open failed at the prepare of a cached statement.
PrepareFailed ==
    /\ op \in {"open", "open_truncate"}
    /\ error = <<"preparing statement">>

\* C21: when the prepare of a cached statement fails, DP_project_open has
\* called sqlite3_finalize exactly once on each statement prepared before
\* it and on no other slot, the connection is closed and the call returned
\* null.
C21_PrepareCleanup ==
    PrepareFailed =>
        /\ \A ps \in DP_ProjectStatement :
               sqlite.stmts[ps].finalized =
                   IF sqlite.stmts[ps].prepared THEN 1 ELSE 0
        /\ ~sqlite.open
        /\ ret = NULL


\* A session-open, session-close or message-record call returned after a
\* sqlite3_bind_* call of it failed.
BindFailed ==
    /\ op \in {"session_open", "session_close", "message_record"}
    /\ Len(error) = 3
    /\ error[1] = "binding"

\* C22: when the binding of a parameter fails in a session-open,
\* session-close or message-record call, no parameter is bound on the
\* statement of that call when it returns.
C22_BindingsCleared ==
    BindFailed => bindings[error[2]] = {}


\* DP_project_close returned after it was given a handle.
HandleGivenToClose ==
    /\ op = "close"
    /\ error # <<"Project is null">>

\* C23: DP_project_close on a handle has called sqlite3_finalize once on
\* every cached statement, has called sqlite3_close and has freed the
\* handle, whatever became of the closing of the open session, and it
\* returned true exactly when sqlite3_close closed the connection.
C23_CloseReleases ==
    HandleGivenToClose =>
        /\ prj = NULL
        /\ \A ps \in DP_ProjectStatement :
               /\ sqlite.stmts[ps].prepared
               /\ sqlite.stmts[ps].finalized = 1
        /\ ret = ~sqlite.open

\* DP_project_close returned true and freed the handle although the
\* closing of the open session failed, whose row stays without a closing
\* time.
C23_Witness ==
    /\ HandleGivenToClose
    /\ ret = TRUE
    /\ prj = NULL
    /\ error = <<"binding", "SESSION_CLOSE", "1">>
    /\ OpenSessions # {}


\* The positions of the messages of a batch that have a form in the old
\* protocol.
Translatable(msgs) ==
    {i \in 1..Len(msgs) : makeMessageBackwardCompatible(msgs[i]) # NULL}

\* out holds the old-protocol forms of exactly the translatable messages
\* of msgs, in the order of msgs.
IsTranslationOf(out, msgs) ==
    /\ Len(out) = Cardinality(Translatable(msgs))
    /\ \E f \in [1..Len(out) -> Translatable(msgs)] :
           /\ \A j, k \in 1..Len(out) : j < k => f[j] < f[k]
           /\ \A k \in 1..Len(out) :
                  out[k] = makeMessageBackwardCompatible(msgs[f[k]])

\* sendMessages or sendResetMessages was called on a client that has a
\* connection.
SentOnConnection ==
    /\ call.name \in {"sendMessages", "sendResetMessages"}
    /\ m_server # 0

\* C24: with a connection, sendMessages and sendResetMessages in
\* compatibility mode hand to the transport one batch with the
\* old-protocol forms of exactly the messages that have one, in their
\* order, or nothing when no message has one; outside compatibility
\* mode they hand over the batch as it is.
C24_CompatibleBatchSent ==
    SentOnConnection =>
        /\ Len(sent) <= 1
        /\ \A i \in 1..Len(sent) :
               /\ sent[i].reset = (call.name = "sendResetMessages")
               /\ sent[i].msgs # <<>>
        /\ LET out == IF sent = <<>> THEN <<>> ELSE sent[1].msgs
           IN  IF m_compatibilityMode
               THEN IsTranslationOf(out, call.msgs)
               ELSE out = call.msgs

\* In compatibility mode a batch whose first message has no old-protocol
\* form went out as the old-protocol form of its second message.
C24_Witness ==
    /\ SentOnConnection
    /\ m_compatibilityMode
    /\ call.msgs = <<"SelectionPut", "DrawDabsClassic">>
    /\ sent = <<[reset |-> call.name = "sendResetMessages",
                 msgs |-> <<"DrawDabsClassic/compat">>]>>


\* The value passed to catchupProgress last, in the catch-up phase that
\* the last Catchup reply began.
LastReported == reported[Len(reported)]

\* C25: the values passed to catchupProgress since a Catchup reply
\* increase strictly, 100 is the last of them, and once the phase is over
\* the last one is 100.
C25_ProgressIncreases ==
    /\ \A i, j \in 1..Len(reported) : i < j => reported[i] < reported[j]
    /\ \A i \in 1..Len(reported) : reported[i] = 100 => i = Len(reported)
    /\ reported # <<>> /\ m_catchupTo <= 0 => LastReported = 100

\* C26: when the value passed to catchupProgress last is 100, the target
\* count is 0 and smoothed delivery is enabled on the connection.
C26_CaughtUp ==
    reported # <<>> /\ LastReported = 100 =>
        /\ m_catchupTo = 0
        /\ servers[m_server].smooth = "on"

\* C27: every value passed to catchupProgress is in 0..100.
C27_ProgressRange ==
    /\ \A i \in 1..Len(reported) : reported[i] \in 0..100
    /\ \A i \in 1..Len(emitted) :
           emitted[i].signal = "catchupProgress" =>
               emitted[i].args[1] \in 0..100


\* C28: a connectToServer call on a client without a connection object
\* creates one connection object, which is connecting, and makes it the
\* client's; a call on a client that has one fails the assertion and
\* creates none; at most one connection object of the client is live at
\* any time, and it is the one m_server points to.
C28_ConnectOnlyWhenDisconnected ==
    /\ [](LiveServers \subseteq {m_server})
    /\ [][call'.name = "connectToServer" =>
              IF m_server = 0
              THEN /\ ~aborted'
                   /\ servers' = Append(servers, NewServer)
                   /\ m_server' = Len(servers')
                   /\ LiveServers' = {m_server'}
              ELSE /\ aborted'
                   /\ servers' = servers
                   /\ m_server' = m_server]_vars

\* A client connected, lost the connection and connected again, and a
\* further connectToServer call then failed the assertion.
C28_Witness ==
    /\ call.name = "connectToServer"
    /\ aborted
    /\ Len(servers) = 2
    /\ servers[1].deleteLater
    /\ m_server = 2
    /\ LiveServers = {2}


\* C29: a disconnected event is handled only by a client that has a
\* connection object; the client emits serverDisconnected once, with the
\* message, error code and local flag of the event, and nothing else,
\* calls deleteLater on the connection object and has none afterwards,
\* and its compatibility mode and moderator flag are false afterwards.
C29_Disconnected ==
    [][call'.name = "handleDisconnect" =>
          /\ m_server # 0
          /\ ~aborted'
          /\ emitted' = <<Signal("serverDisconnected",
                                 <<call'.event.message,
                                   call'.event.errorcode,
                                   call'.event.localDisconnect>>)>>
          /\ m_server' = 0
          /\ servers'[m_server].deleteLater
          /\ LiveServers' = {}
          /\ ~m_compatibilityMode'
          /\ ~m_moderator']_vars

\* A moderator logged in to a session in the old protocol has received
\* the disconnected event.
C29_Witness ==
    /\ call.name = "handleDisconnect"
    /\ call.event.errorcode = "closed"
    /\ m_server = 0
    /\ servers[1].state = "disconnected"
    /\ servers[1].deleteLater
    /\ m_isAuthenticated
    /\ m_myId = 2
    /\ ~m_supportsAutoReset
    /\ ~m_compatibilityMode
    /\ ~m_moderator


\* C30: the client has no connection object from a disconnected event
\* on: the object m_server points to has not reported its disconnection,
\* and only a connectToServer call on a client without a connection
\* object creates a connection object or makes m_server point to one.
C30_NoReconnect ==
    /\ [](m_server # 0 =>
              /\ servers[m_server].state # "disconnected"
              /\ ~servers[m_server].deleteLater)
    /\ [][(Len(servers') # Len(servers)
             \/ (m_server' # 0 /\ m_server' # m_server)) =>
              /\ call'.name = "connectToServer"
              /\ m_server = 0]_vars

\* A client that had received a batch lost its connection and was then
\* called to send or to disconnect; it has no connection object.
C30_Witness ==
    /\ call.name \in {"disconnectFromServer", "sendMessages",
                      "sendResetMessages"}
    /\ Len(servers) = 1
    /\ servers[1].state = "disconnected"
    /\ servers[1].delivered > 0
    /\ m_server = 0


\* The signals of the given name among those the last call emitted.
Emitted(name) ==
    {i \in 1..Len(emitted) : emitted[i].signal = name}

\* C31: a sendMessages call whose batch is not empty after the filtering
\* emits drawingCommandsLocal once with that batch, first, with or without
\* a connection; with a connection the batch goes to the transport and
\* messagesReceived is not emitted, without one messagesReceived is
\* emitted once with the batch and nothing goes to the transport.
C31_LocalLoopback ==
    call.name = "sendMessages" =>
        LET batch == IF m_compatibilityMode
                     THEN SelectSeq(
                              [i \in 1..Len(call.msgs) |->
                                  makeMessageBackwardCompatible(call.msgs[i])],
                              LAMBDA m : m # NULL)
                     ELSE call.msgs
            local == Signal("drawingCommandsLocal", <<Len(batch), batch>>)
            received == Signal("messagesReceived", <<Len(batch), batch>>)
        IN  batch # <<>> =>
                /\ Cardinality(Emitted("drawingCommandsLocal")) = 1
                /\ emitted[1] = local
                /\ IF m_server # 0
                   THEN /\ emitted = <<local>>
                        /\ sent = <<[reset |-> FALSE, msgs |-> batch]>>
                   ELSE /\ emitted = <<local, received>>
                        /\ sent = <<>>

\* A client without a connection was given a batch of two messages to
\* send and announced it as local commands and as received.
C31_Witness ==
    /\ call.name = "sendMessages"
    /\ call.msgs = <<"SelectionPut", "PenUp">>
    /\ m_server = 0
    /\ Len(emitted) = 2
    /\ emitted[2] = Signal("messagesReceived", <<2, call.msgs>>)
    /\ sent = <<>>

\* The event that one inbound message causes on its own, by name: the
\* event of a server reply, of user info addressed to this user, or the
\* start of a catch-up; <<>> when it causes none.
SideEffect(msg) ==
    CASE msg.type = "SERVER_COMMAND" /\ msg.reply \in {"Message", "Alert", "Error", "Result"} -> <<"serverMessage">>
      [] msg.type = "SERVER_COMMAND" /\ msg.reply = "Log" -> <<"serverLog">>
      [] msg.type = "SERVER_COMMAND" /\ msg.reply = "SessionConf" -> <<"sessionConfChange">>
      [] msg.type = "SERVER_COMMAND" /\ msg.reply = "ResetRequest" -> <<"autoresetRequested">>
      [] msg.type = "SERVER_COMMAND" /\ msg.reply = "Status" -> <<"serverStatusUpdate">>
      [] msg.type = "SERVER_COMMAND" /\ msg.reply = "Reset" /\ msg.state = "init" -> <<"needSnapshot">>
      [] msg.type = "SERVER_COMMAND" /\ msg.reply = "Reset" /\ msg.state = "reset" -> <<"sessionResetted">>
      [] msg.type = "SERVER_COMMAND" /\ msg.reply = "Catchup" -> <<"catchupProgress">>
      [] msg.type = "DATA" /\ msg.recipient = m_myId /\ msg.info = "request_user_info" -> <<"userInfoRequested">>
      [] msg.type = "DATA" /\ msg.recipient = m_myId /\ msg.info = "user_info" -> <<"userInfoReceived">>
      [] OTHER -> <<>>

\* The events that the messages of a batch cause, in the order of the
\* messages.
RECURSIVE SideEffects(_)
SideEffects(msgs) ==
    IF msgs = <<>> THEN <<>> ELSE SideEffect(Head(msgs)) \o SideEffects(Tail(msgs))

\* C32: after handleMessages has handled a batch, the events that its
\* messages caused (server-reply events, user-info events, the start of a
\* catch-up) have been emitted in the order of the messages, all of them
\* before messagesReceived, which is emitted once for the batch, carries
\* the batch's count and passes on every message in its order; nothing but
\* the catch-up progress that the batch's count makes follows it.
C32_BatchOrder ==
    call.name = "handleMessages" =>
        LET effects == SideEffects(call.msgs)
            n == Len(effects)
        IN  /\ Len(emitted) > n
            /\ \A i \in 1..n : emitted[i].signal = effects[i]
            /\ emitted[n + 1].signal = "messagesReceived"
            /\ emitted[n + 1].args[1] = call.count
            /\ Len(emitted[n + 1].args[2]) = Len(call.msgs)
            /\ \A i \in 1..Len(call.msgs) : emitted[n + 1].args[2][i].type = call.msgs[i].type
            /\ Cardinality(Emitted("messagesReceived")) = 1
            /\ \A i \in (n + 2)..Len(emitted) : emitted[i].signal = "catchupProgress"

\* A batch of three messages that each cause an event has been handled.
C32_Witness ==
    /\ call.name = "handleMessages"
    /\ call.msgs = <<Reply("Status"), Catchup(2), Reply("Log")>>
    /\ call.count = 3
    /\ Len(emitted) = 5
    /\ emitted[1].signal = "serverStatusUpdate"
    /\ emitted[3].signal = "serverLog"
    /\ emitted[4].signal = "messagesReceived"
    /\ emitted[5] = Signal("catchupProgress", <<100>>)

\* The connection on which a step delivers a batch.
Delivering(s) ==
    /\ s \in DOMAIN servers
    /\ s \in DOMAIN servers'
    /\ servers'[s].delivered = servers[s].delivered + 1

\* The signals emitted before messagesReceived.
BeforeReceived(signals) ==
    LET k == CHOOSE i \in 1..Len(signals) : signals[i].signal = "messagesReceived"
    IN  SubSeq(signals, 1, k - 1)

\* The one event that a server reply of the given type causes; <<>> for the
\* types that cause none.
ReplyOutcome(msg) ==
    CASE msg.reply \in {"Message", "Error", "Result"} -> <<Signal("serverMessage", <<msg.reply, FALSE>>)>>
      [] msg.reply = "Alert" -> <<Signal("serverMessage", <<msg.reply, TRUE>>)>>
      [] msg.reply = "Log" -> <<Signal("serverLog", <<>>)>>
      [] msg.reply = "SessionConf" -> <<Signal("sessionConfChange", <<>>)>>
      [] msg.reply = "ResetRequest" -> <<Signal("autoresetRequested", <<>>)>>
      [] msg.reply = "Status" -> <<Signal("serverStatusUpdate", <<>>)>>
      [] msg.reply = "Reset" /\ msg.state = "init" -> <<Signal("needSnapshot", <<>>)>>
      [] msg.reply = "Reset" /\ msg.state = "reset" -> <<Signal("sessionResetted", <<>>)>>
      [] msg.reply \in {"Login", "SizeLimitWarning", "Unknown", "Reset"} -> <<>>

\* C33: a batch of one server reply causes the one outcome of the reply's
\* type: serverMessage for Message, Alert, Error and Result, with the alert
\* flag set for Alert only, serverLog for Log, sessionConfChange for
\* SessionConf, autoresetRequested for ResetRequest, serverStatusUpdate for
\* Status, needSnapshot for Reset "init", sessionResetted for Reset "reset",
\* and no event for Login, SizeLimitWarning, Unknown and any other Reset;
\* none of these changes the client's state (with no catch-up under way,
\* when the batch does not count, nothing but the count of deliveries
\* changes). Catchup sets the catch-up counters anew.
C33_ReplyOutcomes ==
    [][\A s \in DOMAIN servers :
        (/\ Delivering(s)
         /\ call'.name = "handleMessages"
         /\ Len(call'.msgs) = 1
         /\ call'.msgs[1].type = "SERVER_COMMAND")
        => LET msg == call'.msgs[1]
           IN  IF msg.reply = "Catchup"
               THEN /\ BeforeReceived(emitted') = <<Signal("catchupProgress", <<IF msg.count > 0 THEN 0 ELSE 100>>)>>
                    /\ m_catchupTo' \in {msg.count, 0}
                    /\ m_caughtUp' \in {0, call'.count}
                    /\ m_catchupProgress' # 0 => m_caughtUp' = call'.count
                    /\ reported'[1] = IF msg.count > 0 THEN 0 ELSE 100
               ELSE /\ BeforeReceived(emitted') = ReplyOutcome(msg)
                    /\ UNCHANGED <<m_server, connectionVars>>
                    /\ m_catchupTo <= 0 =>
                           /\ UNCHANGED <<catchupVars, reported, aborted>>
                           /\ servers' = [servers EXCEPT ![s].delivered = @ + 1]
                           /\ Len(emitted') = Len(ReplyOutcome(msg)) + 1]_vars

\* A batch of one Reset reply in a state that is neither "init" nor "reset"
\* has been handled and nothing but messagesReceived was emitted.
C33_Witness ==
    /\ call.name = "handleMessages"
    /\ call.msgs = <<Reset("other")>>
    /\ Len(emitted) = 1
    /\ emitted[1].signal = "messagesReceived"
    /\ m_catchupTo = 0

\* C34: disconnectFromServer leaves the connection object of the client,
\* what the client knows of the connection and the catch-up counters as
\* they are and emits and sends nothing; with a connection the one thing
\* it does is to request the logout of that connection, which stays the
\* client's connection, and without one the connections stay as they are.
\* The client gives up its connection object in no step but the handling
\* of the disconnected event.
C34_DisconnectRequested ==
    [][/\ call'.name = "disconnectFromServer"
          => /\ m_server' = m_server
             /\ UNCHANGED <<connectionVars, catchupVars>>
             /\ emitted' = <<>>
             /\ sent' = <<>>
             /\ IF m_server = 0
                THEN servers' = servers
                ELSE /\ servers' = [servers EXCEPT ![m_server].logout = TRUE]
                     /\ servers'[m_server].state = servers[m_server].state
                     /\ servers'[m_server].state # "disconnected"
       /\ (m_server # 0 /\ m_server' = 0) => call'.name = "handleDisconnect"]_vars

\* disconnectFromServer has been called on a client that is logged in, and
\* the client still has its connection.
C34_Witness ==
    /\ call.name = "disconnectFromServer"
    /\ m_server # 0
    /\ servers[m_server].logout
    /\ servers[m_server].state = "logged_in"
    /\ m_myId = 2

\* The Catchup replies among the messages of a batch, in their order.
CatchupReplies(msgs) ==
    SelectSeq(msgs, LAMBDA m : m.type = "SERVER_COMMAND" /\ m.reply = "Catchup")

\* The values of the catchupProgress signals among signals, in their order.
ProgressValues(signals) ==
    LET progress == SelectSeq(signals, LAMBDA e : e.signal = "catchupProgress")
    IN  [i \in 1..Len(progress) |-> progress[i].args[1]]

\* C35: after a batch with Catchup replies, each of them has reported
\* progress 0 for a positive count and 100 otherwise, before
\* messagesReceived, and the last of them decides the counters, whatever
\* they were before: the target is its count, and the received count and
\* the last reported percentage start from 0, so that with a positive
\* count the received count is the count of this batch alone, and the
\* phase ends (target 0, smoothing back on, progress 100) if that reaches
\* the target; smoothing is off while the phase has not ended.
C35_CatchupStarts ==
    (call.name = "handleMessages" /\ CatchupReplies(call.msgs) # <<>>) =>
        LET replies == CatchupReplies(call.msgs)
            target == replies[Len(replies)].count
            smooth == servers[m_server].smooth
            after == SubSeq(emitted, Len(BeforeReceived(emitted)) + 2, Len(emitted))
        IN  /\ ProgressValues(BeforeReceived(emitted))
                   = [i \in 1..Len(replies) |-> IF replies[i].count > 0 THEN 0 ELSE 100]
            /\ target <= 0 =>
                   /\ m_catchupTo = target
                   /\ m_caughtUp = 0
                   /\ m_catchupProgress = 0
                   /\ smooth = "off"
                   /\ after = <<>>
            /\ (target > 0 /\ aborted) =>
                   /\ m_catchupTo = target
                   /\ m_caughtUp = 0
                   /\ m_catchupProgress = 0
                   /\ smooth = "off"
            /\ (target > 0 /\ ~aborted) =>
                   /\ m_caughtUp = call.count
                   /\ IF call.count >= target
                      THEN /\ m_catchupTo = 0
                           /\ m_catchupProgress = 0
                           /\ smooth = "on"
                           /\ after = <<Signal("catchupProgress", <<100>>)>>
                      ELSE /\ m_catchupTo = target
                           /\ smooth = "off"
                           /\ call.count <= 21474836 =>
                                  /\ m_catchupProgress = (100 * call.count) \div target
                                  /\ after = IF m_catchupProgress = 0
                                             THEN <<>>
                                             ELSE <<Signal("catchupProgress", <<m_catchupProgress>>)>>

\* A Catchup reply for three messages has arrived in the batch in which a
\* catch-up on one message had begun, and the phase has started anew.
C35_Witness ==
    /\ call.name = "handleMessages"
    /\ call.msgs = <<Catchup(1), Catchup(3)>>
    /\ call.count = 2
    /\ m_catchupTo = 3
    /\ m_caughtUp = 2
    /\ m_catchupProgress = 66
    /\ servers[m_server].smooth = "off"
    /\ ProgressValues(emitted) = <<0, 0, 66>>

\* C36: the compatibility mode is on only while the client has a
\* connection object that has logged in: it is off in every state without
\* a connection object and while the connection is still connecting. It
\* goes on in no step but a login event that reports the compatibility
\* dialect and is off after every disconnected event, and a batch sent
\* without a connection comes back as it was given, neither filtered nor
\* translated.
C36_CompatibilityMode ==
    /\ [](/\ m_compatibilityMode => (m_server # 0 /\ servers[m_server].state = "logged_in")
          /\ (call.name \in {"sendMessages", "sendResetMessages"} /\ m_server = 0 /\ ~aborted) =>
                 /\ sent = <<>>
                 /\ \A i \in Emitted("messagesReceived") \cup Emitted("drawingCommandsLocal") :
                        emitted[i].args = <<Len(call.msgs), call.msgs>>)
    /\ [][/\ (m_compatibilityMode' /\ ~m_compatibilityMode) =>
                 (call'.name = "handleConnect" /\ call'.login.compatibilityMode)
          /\ call'.name = "handleConnect" =>
                 m_compatibilityMode' = call'.login.compatibilityMode
          /\ (call'.name = "handleDisconnect" /\ ~aborted') => ~m_compatibilityMode']_vars

\* A batch with a message that has no compatible form was sent without a
\* connection, after a session in compatibility mode had ended, and came
\* back whole.
C36_Witness ==
    /\ call.name = "sendMessages"
    /\ call.msgs = <<"DrawDabsClassic", "SelectionPut">>
    /\ m_server = 0
    /\ Len(servers) = 1
    /\ m_supportsAutoReset = FALSE
    /\ m_isAuthenticated
    /\ ~m_compatibilityMode
    /\ emitted = <<Signal("drawingCommandsLocal", <<2, call.msgs>>),
                   Signal("messagesReceived", <<2, call.msgs>>)>>

\* The state after a DP_project_session_close that found a session open
\* and failed to update its row.
CloseFailed == op = "session_close" /\ ret = 0

\* C37: every DP_project_session_close that finds a session open leaves
\* the current session id 0, with the result 1 or 0. After one that
\* returned 0, a message-record is refused for want of a session and
\* writes nothing, and a session-open is not refused: if its insert goes
\* through it returns true with a session id that no earlier session row
\* has, and every message row written from then on carries the current
\* session id.
C37_CloseClearsSession ==
    [][/\ (Called("session_close") /\ session_id # 0) =>
              (session_id' = 0 /\ ret' \in {0, 1})
       /\ (CloseFailed /\ Called("message_record")) =>
              (ret' = FALSE /\ error' = <<"No open session">> /\ db' = db)
       /\ (CloseFailed /\ Called("session_open")) =>
              /\ error' = <<>> <=> ret' = TRUE
              /\ ret' = TRUE =>
                     /\ session_id' # 0
                     /\ session_id' \notin {r.session_id : r \in db.sessions}
                     /\ \E r \in db'.sessions \ db.sessions :
                            r.session_id = session_id' /\ r.closed_at = NULL
       /\ Called("message_record") =>
              \A m \in db'.messages \ db.messages :
                  m.session_id = session_id /\ session_id # 0]_vars

\* A message was recorded in session 2, which was opened after the close
\* of session 1 had failed: the row of session 1 is still open and holds
\* no message.
C37_Witness ==
    /\ op = "message_record"
    /\ ret = TRUE
    /\ session_id = 2
    /\ \E r \in OpenSessions : r.session_id = 1
    /\ \E m \in db.messages : m.session_id = 2
    /\ ~\E m \in db.messages : m.session_id = 1

\* C38: no message row has the session id 0, and every message row belongs
\* to a session row of the store; message rows are written by
\* message-record alone, and each one it writes carries the handle's
\* current session id, whose session row exists with a null close
\* timestamp at that moment, so that none is written under a session that
\* has been closed.
C38_MessagesInOpenSession ==
    /\ [](\A m \in db.messages :
              /\ m.session_id # 0
              /\ \E r \in db.sessions : r.session_id = m.session_id)
    /\ [][\A m \in db'.messages \ db.messages :
              /\ Called("message_record")
              /\ prj # NULL
              /\ session_id # 0
              /\ m.session_id = session_id
              /\ \E r \in db.sessions :
                     r.session_id = session_id /\ r.closed_at = NULL
              /\ ~\E r \in db.sessions :
                     r.session_id = session_id /\ r.closed_at # NULL]_vars

\* Session 1 was closed with its message, and a message has been recorded
\* in session 2.
C38_Witness ==
    /\ op = "message_record"
    /\ ret = TRUE
    /\ session_id = 2
    /\ \E r \in db.sessions : r.session_id = 1 /\ r.closed_at # NULL
    /\ \E r \in db.sessions : r.session_id = 2 /\ r.closed_at = NULL
    /\ \E m \in db.messages : m.session_id = 1
    /\ \E m \in db.messages : m.session_id = 2

C40_CatchupNotCarriedOver ==
    [][/\ (call'.name = "connectToServer" /\ ~aborted') =>
              /\ m_catchupTo' = 0
              /\ m_caughtUp' = 0
              /\ m_catchupProgress' = 0
              /\ m_server' # 0
              /\ servers'[m_server'].delivered = 0
       /\ (m_catchupTo' > 0 /\ m_catchupTo' # m_catchupTo) =>
              (call'.name = "handleMessages" /\ CatchupReplies(call'.msgs) # <<>>)
       /\ (call'.name = "handleMessages" /\ ProgressValues(emitted') # <<>>) =>
              (m_catchupTo > 0 \/ CatchupReplies(call'.msgs) # <<>>)
       /\ (call'.name = "handleDisconnect" /\ ~aborted') =>
              UNCHANGED <<m_catchupTo, m_caughtUp, m_catchupProgress, m_myId,
                          m_isAuthenticated, m_supportsAutoReset>>]_vars

\* The first connection was lost in the middle of a catch-up, which left
\* its smoothing off; on the second connection a batch has been handled
\* and no progress was reported.
C40_Witness ==
    /\ call.name = "handleMessages"
    /\ call.msgs = <<Reply("Message")>>
    /\ m_server = 2
    /\ servers[1].state = "disconnected"
    /\ servers[1].smooth = "off"
    /\ servers[1].delivered = 1
    /\ ProgressValues(emitted) = <<>>
    /\ m_catchupTo = 0
    /\ m_caughtUp = 0

====
